---------------------------- MODULE Spec2Model ----------------------------
(***************************************************************************)
(* SafeLink URL security assessment: the scan pipeline of scanner.py       *)
(* (scan_url and its five analyzer stages), the scoring engine of          *)
(* ml_model.py (load_model, compute_ml_anomaly_score,                      *)
(* compute_hybrid_risk_score, score_scan) and the dashboard handler        *)
(* run_scan of app.py.                                                     *)
(*                                                                         *)
(* Text is a sequence of one-character strings.  Scores that Python keeps  *)
(* as floats rounded to two decimals are kept as integers in hundredths.   *)
(***************************************************************************)
EXTENDS Integers, Sequences, FiniteSets, TLC

(***************************************************************************)
(* Text helpers (str methods and the re patterns the scanner uses)         *)
(***************************************************************************)
Digits == {"0", "1", "2", "3", "4", "5", "6", "7", "8", "9"}

UpperChars ==
    <<"A", "B", "C", "D", "E", "F", "G", "H", "I", "J", "K", "L", "M",
      "N", "O", "P", "Q", "R", "S", "T", "U", "V", "W", "X", "Y", "Z">>

LowerChars ==
    <<"a", "b", "c", "d", "e", "f", "g", "h", "i", "j", "k", "l", "m",
      "n", "o", "p", "q", "r", "s", "t", "u", "v", "w", "x", "y", "z">>

Letters == {UpperChars[i] : i \in 1..26} \cup {LowerChars[i] : i \in 1..26}

HexChars == Digits \cup {"a", "b", "c", "d", "e", "f", "A", "B", "C", "D", "E", "F"}

\* \w of the re module, on the characters the model uses
WordChars == Letters \cup Digits \cup {"_"}

\* the characters str.strip() removes
Whitespace == {" "}

LowerChar(c) ==
    IF \E i \in 1..26 : UpperChars[i] = c
    THEN LowerChars[CHOOSE i \in 1..26 : UpperChars[i] = c]
    ELSE c

\* str.lower()
Lower(s) == [i \in 1..Len(s) |-> LowerChar(s[i])]

\* s[i:] with a 1-based i
From(s, i) == SubSeq(s, i, Len(s))

\* s.startswith(p)
StartsWith(s, p) == Len(s) >= Len(p) /\ SubSeq(s, 1, Len(p)) = p

\* p in s (substring test)
Contains(s, p) == \E i \in 1..(Len(s) - Len(p) + 1) : SubSeq(s, i, i + Len(p) - 1) = p

\* s.count(c) for a single character, and len(re.findall("[set]", s))
CountIn(s, set) == Cardinality({i \in 1..Len(s) : s[i] \in set})

\* s.find(c) over a set of characters: the first index holding one of them, 0 if none
FirstOf(s, set) ==
    IF \E i \in 1..Len(s) : s[i] \in set
    THEN CHOOSE i \in 1..Len(s) : s[i] \in set /\ \A j \in 1..(i - 1) : s[j] \notin set
    ELSE 0

\* s.rfind(c): the last index holding c, 0 if none
LastOf(s, c) ==
    IF \E i \in 1..Len(s) : s[i] = c
    THEN CHOOSE i \in 1..Len(s) : s[i] = c /\ \A j \in (i + 1)..Len(s) : s[j] # c
    ELSE 0

\* s.partition(c)[0] over a set of characters
Before(s, set) == IF FirstOf(s, set) = 0 THEN s ELSE SubSeq(s, 1, FirstOf(s, set) - 1)

\* s.partition(c)[2]
After(s, set) == IF FirstOf(s, set) = 0 THEN <<>> ELSE From(s, FirstOf(s, set) + 1)

\* s.strip(): leading and trailing whitespace removed
RECURSIVE LStrip(_, _)
LStrip(s, set) == IF s # <<>> /\ Head(s) \in set THEN LStrip(Tail(s), set) ELSE s

RECURSIVE RStrip(_, _)
RStrip(s, set) ==
    IF s # <<>> /\ s[Len(s)] \in set THEN RStrip(SubSeq(s, 1, Len(s) - 1), set) ELSE s

Strip(s, set) == RStrip(LStrip(s, set), set)

\* s.split(c) for a single character
RECURSIVE Split(_, _)
Split(s, c) ==
    IF FirstOf(s, {c}) = 0 THEN <<s>>
    ELSE <<Before(s, {c})>> \o Split(After(s, {c}), c)

Min(a, b) == IF a <= b THEN a ELSE b

Max(a, b) == IF a >= b THEN a ELSE b

PHISHING_KEYWORDS ==
    <<<<"l", "o", "g", "i", "n">>,
      <<"s", "i", "g", "n", "i", "n">>,
      <<"v", "e", "r", "i", "f", "y">>,
      <<"a", "c", "c", "o", "u", "n", "t">>,
      <<"s", "e", "c", "u", "r", "e">>,
      <<"u", "p", "d", "a", "t", "e">>,
      <<"c", "o", "n", "f", "i", "r", "m">>,
      <<"b", "a", "n", "k", "i", "n", "g">>,
      <<"p", "a", "y", "p", "a", "l">>,
      <<"a", "m", "a", "z", "o", "n">>,
      <<"g", "o", "o", "g", "l", "e">>,
      <<"m", "i", "c", "r", "o", "s", "o", "f", "t">>,
      <<"a", "p", "p", "l", "e">>,
      <<"n", "e", "t", "f", "l", "i", "x">>,
      <<"p", "a", "s", "s", "w", "o", "r", "d">>,
      <<"c", "r", "e", "d", "e", "n", "t", "i", "a", "l">>,
      <<"v", "a", "l", "i", "d", "a", "t", "e">>,
      <<"a", "u", "t", "h", "e", "n", "t", "i", "c", "a", "t", "e">>,
      <<"s", "u", "s", "p", "e", "n", "d", "e", "d">>,
      <<"u", "n", "u", "s", "u", "a", "l">>,
      <<"a", "c", "t", "i", "v", "i", "t", "y">>,
      <<"a", "l", "e", "r", "t">>,
      <<"u", "r", "g", "e", "n", "t">>,
      <<"c", "l", "i", "c", "k">>,
      <<"f", "r", "e", "e">>,
      <<"w", "i", "n">>,
      <<"p", "r", "i", "z", "e">>,
      <<"l", "o", "t", "t", "e", "r", "y">>,
      <<"c", "r", "y", "p", "t", "o">>,
      <<"b", "i", "t", "c", "o", "i", "n">>,
      <<"w", "a", "l", "l", "e", "t">>,
      <<"r", "e", "c", "o", "v", "e", "r", "y">>>>

SUSPICIOUS_TLDS ==
    {<<".", "t", "k">>,
     <<".", "m", "l">>,
     <<".", "g", "a">>,
     <<".", "c", "f">>,
     <<".", "g", "q">>,
     <<".", "x", "y", "z">>,
     <<".", "t", "o", "p">>,
     <<".", "c", "l", "u", "b">>,
     <<".", "o", "n", "l", "i", "n", "e">>,
     <<".", "s", "i", "t", "e">>,
     <<".", "i", "c", "u">>,
     <<".", "p", "w">>,
     <<".", "c", "c">>,
     <<".", "b", "i", "z">>,
     <<".", "i", "n", "f", "o">>,
     <<".", "v", "i", "p">>,
     <<".", "f", "u", "n">>,
     <<".", "w", "o", "r", "k">>,
     <<".", "l", "o", "a", "n">>,
     <<".", "w", "i", "n">>,
     <<".", "b", "i", "d">>}

BENIGN_DOMAINS ==
    {<<"g", "o", "o", "g", "l", "e", ".", "c", "o", "m">>,
     <<"y", "o", "u", "t", "u", "b", "e", ".", "c", "o", "m">>,
     <<"f", "a", "c", "e", "b", "o", "o", "k", ".", "c", "o", "m">>,
     <<"t", "w", "i", "t", "t", "e", "r", ".", "c", "o", "m">>,
     <<"i", "n", "s", "t", "a", "g", "r", "a", "m", ".", "c", "o", "m">>,
     <<"l", "i", "n", "k", "e", "d", "i", "n", ".", "c", "o", "m">>,
     <<"g", "i", "t", "h", "u", "b", ".", "c", "o", "m">>,
     <<"m", "i", "c", "r", "o", "s", "o", "f", "t", ".", "c", "o", "m">>,
     <<"a", "p", "p", "l", "e", ".", "c", "o", "m">>,
     <<"a", "m", "a", "z", "o", "n", ".", "c", "o", "m">>,
     <<"w", "i", "k", "i", "p", "e", "d", "i", "a", ".", "o", "r", "g">>,
     <<"r", "e", "d", "d", "i", "t", ".", "c", "o", "m">>,
     <<"s", "t", "a", "c", "k", "o", "v", "e", "r", "f", "l", "o", "w", ".", "c", "o", "m">>,
     <<"m", "e", "d", "i", "u", "m", ".", "c", "o", "m">>,
     <<"c", "l", "o", "u", "d", "f", "l", "a", "r", "e", ".", "c", "o", "m">>,
     <<"n", "e", "t", "f", "l", "i", "x", ".", "c", "o", "m">>,
     <<"s", "p", "o", "t", "i", "f", "y", ".", "c", "o", "m">>,
     <<"z", "o", "o", "m", ".", "u", "s">>,
     <<"s", "l", "a", "c", "k", ".", "c", "o", "m">>}

BLACKLISTED_DOMAINS_SAMPLE ==
    {<<"m", "a", "l", "w", "a", "r", "e", "-", "t", "e", "s", "t", ".", "c", "o", "m">>,
     <<"p", "h", "i", "s", "h", "i", "n", "g", "-", "e", "x", "a", "m", "p", "l", "e", ".", "n", "e", "t">>,
     <<"e", "v", "i", "l", "-", "s", "i", "t", "e", ".", "t", "k">>,
     <<"f", "a", "k", "e", "p", "a", "y", "p", "a", "l", "-", "s", "e", "c", "u", "r", "e", ".", "c", "o", "m">>,
     <<"l", "o", "g", "i", "n", "-", "a", "m", "a", "z", "o", "n", "-", "v", "e", "r", "i", "f", "y", ".", "x", "y", "z">>}

url_shorteners ==
    {<<"b", "i", "t", ".", "l", "y">>,
     <<"t", ".", "c", "o">>,
     <<"t", "i", "n", "y", "u", "r", "l", ".", "c", "o", "m">>,
     <<"g", "o", "o", ".", "g", "l">>,
     <<"o", "w", ".", "l", "y">>,
     <<"b", "u", "f", "f", ".", "l", "y">>,
     <<"i", "s", ".", "g", "d">>,
     <<"r", "e", "b", "r", "a", "n", "d", ".", "l", "y">>,
     <<"c", "u", "t", "t", ".", "l", "y">>,
     <<"s", "h", "o", "r", "t", ".", "g", "y">>}

DEMO_MALICIOUS_HASHES ==
    {<<"7", "f", "3", "a", "0", "f", "4", "d", "2", "b", "8", "c", "1", "e", "9", "a">>,
     <<"a", "1", "b", "2", "c", "3", "d", "4", "e", "5", "f", "6", "7", "8", "9", "0">>}
(***************************************************************************)
(* urllib.parse.urlparse, as scanner.py uses it (scheme, netloc, hostname, *)
(* path).  The inputs hold no "[", "]" or ";", so urlparse raises nothing  *)
(* and the path carries no parameters.                                     *)
(***************************************************************************)
SchemeChars == Letters \cup Digits \cup {"+", "-", "."}

\* urlsplit takes a scheme when the text before the first ":" is a letter
\* followed by scheme characters
HasScheme(u) ==
    LET i == FirstOf(u, {":"})
    IN  i > 1 /\ u[1] \in Letters /\ \A j \in 1..(i - 1) : u[j] \in SchemeChars

UrlScheme(u) == IF HasScheme(u) THEN Lower(Before(u, {":"})) ELSE <<>>

AfterScheme(u) == IF HasScheme(u) THEN After(u, {":"}) ELSE u

HasNetloc(u) == StartsWith(AfterScheme(u), <<"/", "/">>)

\* parsed.netloc: what follows "//" up to the first "/", "?" or "#"
UrlNetloc(u) ==
    IF HasNetloc(u) THEN Before(From(AfterScheme(u), 3), {"/", "?", "#"}) ELSE <<>>

AfterNetloc(u) ==
    IF HasNetloc(u) THEN From(AfterScheme(u), 3 + Len(UrlNetloc(u))) ELSE AfterScheme(u)

\* parsed.path: the rest without the fragment and the query
UrlPath(u) == Before(Before(AfterNetloc(u), {"#"}), {"?"})

\* the host of "user@host:port": what follows the last "@", up to the first ":"
HostOf(hostport) == Before(From(hostport, LastOf(hostport, "@") + 1), {":"})

\* parsed.hostname or "": the host of the netloc, lower-cased
UrlHostname(u) == Lower(HostOf(UrlNetloc(u)))

(***************************************************************************)
(* tldextract.extract(url): subdomain, domain and public suffix of the     *)
(* host.  PublicSuffixes is the part of the public suffix list that the    *)
(* modelled inputs meet.                                                   *)
(***************************************************************************)
PublicSuffixes ==
    {<<"c", "o", "m">>, <<"o", "r", "g">>, <<"n", "e", "t">>, <<"t", "k">>,
     <<"x", "y", "z">>, <<"l", "y">>, <<"u", "k">>, <<"u", "s">>,
     <<"c", "o", ".", "u", "k">>}

\* the scheme tldextract removes: "http://", "https://", "//" or any "scheme://"
SchemelessUrl(u) ==
    IF StartsWith(u, <<"/", "/">>) THEN From(u, 3)
    ELSE IF HasScheme(u) /\ HasNetloc(u) THEN From(AfterScheme(u), 3)
    ELSE u

\* lenient_netloc: host without user info, port, surrounding blanks and final dots
LenientNetloc(u) ==
    RStrip(Strip(HostOf(Before(SchemelessUrl(u), {"/", "?", "#"})), Whitespace), {"."})

DigitVal(c) == CHOOSE n \in 0..9 : ToString(n) = c

IsOctet(label) ==
    /\ Len(label) \in 1..3
    /\ \A i \in 1..Len(label) : label[i] \in Digits
    /\ (Len(label) = 3 =>
           100 * DigitVal(label[1]) + 10 * DigitVal(label[2]) + DigitVal(label[3]) <= 255)

\* looks_like_ip: a dotted quad
LooksLikeIp(host) ==
    LET labels == Split(host, ".")
    IN  Len(labels) = 4 /\ \A i \in 1..4 : IsOctet(labels[i])

\* the positions at which a label of the host starts
LabelStarts(host) == {i \in 1..Len(host) : i = 1 \/ host[i - 1] = "."}

\* where the longest public suffix of the host starts (0: the host has none)
SuffixStart(host) ==
    LET hits == {i \in LabelStarts(host) : From(Lower(host), i) \in PublicSuffixes}
    IN  IF hits = {} THEN 0 ELSE CHOOSE i \in hits : \A j \in hits : i <= j

\* the text in front of the suffix that starts at s, without the dot that ends it
BeforeSuffix(host, s) == IF s = 0 THEN host ELSE SubSeq(host, 1, s - 2)

\* the three parts of a host whose suffix starts at s, rest being the text in
\* front of the suffix and d the position of the last dot in rest
ExtractParts(host, s, rest, d) ==
    IF LooksLikeIp(host)
    THEN [subdomain |-> <<>>, domain |-> host, suffix |-> <<>>]
    ELSE [subdomain |-> SubSeq(rest, 1, d - 1),
          domain    |-> From(rest, d + 1),
          suffix    |-> IF s = 0 THEN <<>> ELSE From(host, s)]

ExtractAt(host, s) ==
    ExtractParts(host, s, BeforeSuffix(host, s), LastOf(BeforeSuffix(host, s), "."))

ExtractHost(host) == ExtractAt(host, SuffixStart(host))

TldExtract(u) == ExtractHost(LenientNetloc(u))

\* f"{ext.domain}.{ext.suffix}" if ext.suffix else ext.domain
RegisteredName(ext) ==
    IF ext.suffix # <<>> THEN ext.domain \o <<".">> \o ext.suffix ELSE ext.domain

Registered(u) == RegisteredName(TldExtract(u))

(***************************************************************************)
(* Parameter 1: URL structure analysis (scanner.py, analyze_url_structure) *)
(***************************************************************************)
\* re.findall(r"[@%&=~#!$*]", url)
SpecialChars == {"@", "%", "&", "=", "~", "#", "!", "$", "*"}

\* len(re.findall(r"%[0-9a-fA-F]{2}", url)): a match cannot overlap another
PctEncodedCount(s) ==
    Cardinality({i \in 1..(Len(s) - 2) :
                    s[i] = "%" /\ s[i + 1] \in HexChars /\ s[i + 2] \in HexChars})

\* bool(re.search(r"%25[0-9a-fA-F]{2}", url))
HasDoubleEncoding(s) ==
    \E i \in 1..(Len(s) - 4) :
        /\ SubSeq(s, i, i + 2) = <<"%", "2", "5">>
        /\ s[i + 3] \in HexChars
        /\ s[i + 4] \in HexChars

\* \d{1,3}(?:\.\d{1,3}){3} matches the whole of t
IsDottedQuad(t) ==
    LET labels == Split(t, ".")
    IN  /\ Len(labels) = 4
        /\ \A k \in 1..4 :
              Len(labels[k]) \in 1..3 /\ \A i \in 1..Len(labels[k]) : labels[k][i] \in Digits

\* re.search(r"\b\d{1,3}(?:\.\d{1,3}){3}\b", hostname)
IpPatternIn(h) ==
    \E i \in 1..Len(h) : \E j \in i..Min(Len(h), i + 14) :
        /\ i = 1 \/ h[i - 1] \notin WordChars
        /\ j = Len(h) \/ h[j + 1] \notin WordChars
        /\ IsDottedQuad(SubSeq(h, i, j))

\* ipaddress.ip_address(hostname) succeeds (an IPv4 literal; the inputs hold
\* no IPv6 literal), or the pattern is found
HasIpInUrl(hostname) == LooksLikeIp(hostname) \/ IpPatternIn(hostname)

Rule(name, delta) == [rule |-> name, delta |-> delta]

\* the length penalty without its cap of 15
LengthPenaltyUncapped(url_length) == ((url_length - 75) \div 10) * 3

\* min(15, (url_length - 75) // 10 * 3)
LengthPenalty(url_length) == Min(15, ((url_length - 75) \div 10) * 3)

\* the rules of analyze_url_structure, in the order the code appends them
UrlStructRules(f) ==
       (IF f.url_length > 75
        THEN <<Rule("Long URL", LengthPenalty(f.url_length))>> ELSE <<>>)
    \o (IF f.has_ip_in_url
        THEN <<Rule("IP address used instead of domain name", 25)>> ELSE <<>>)
    \o (IF f.num_subdomains >= 3 THEN <<Rule("Excessive subdomains", 10)>>
        ELSE IF f.num_subdomains = 2 THEN <<Rule("Multiple subdomains", 5)>>
        ELSE <<>>)
    \o (IF f.suspicious_patterns >= 3 THEN <<Rule("Multiple phishing keywords", 15)>>
        ELSE IF f.suspicious_patterns >= 1 THEN <<Rule("Phishing keyword detected", 8)>>
        ELSE <<>>)
    \o (IF f.has_suspicious_tld THEN <<Rule("High-risk TLD", 12)>> ELSE <<>>)
    \o (IF f.num_hyphens >= 4 THEN <<Rule("Excessive hyphens in domain", 8)>> ELSE <<>>)
    \o (IF f.special_char_count >= 5
        THEN <<Rule("Suspicious special characters", 7)>> ELSE <<>>)
    \o (IF f.has_at_symbol THEN <<Rule("@ symbol in URL", 15)>> ELSE <<>>)
    \o (IF f.pct_encoded_count >= 3
        THEN <<Rule("URL encoding obfuscation", 8)>> ELSE <<>>)
    \o (IF f.has_double_encoding
        THEN <<Rule("Double URL encoding detected", 12)>> ELSE <<>>)
    \o (IF f.has_punycode
        THEN <<Rule("Punycode/IDN homograph attack risk", 10)>> ELSE <<>>)
    \o (IF f.is_url_shortener
        THEN <<Rule("URL shortener hides true destination", 10)>> ELSE <<>>)
    \o (IF f.num_digits_in_domain >= 4
        THEN <<Rule("Many digits in domain name", 5)>> ELSE <<>>)

\* rule_score += delta for every appended rule
RECURSIVE SumDeltas(_)
SumDeltas(rules) == IF rules = <<>> THEN 0 ELSE Head(rules).delta + SumDeltas(Tail(rules))

\* the stage's score as a fault would have it: the cap left out
UrlStructScoreUncapped(rule_score) == rule_score

\* the stage's cap: "rule_score": min(rule_score, 50)
UrlStructScore(rule_score) == Min(rule_score, 50)

\* f".{ext.suffix}" if ext.suffix else ""
DottedSuffix(ext) == IF ext.suffix # <<>> THEN <<".">> \o ext.suffix ELSE <<>>

\* [kw for kw in PHISHING_KEYWORDS if kw in full_url]
MatchedKeywords(full_url) ==
    SelectSeq(PHISHING_KEYWORDS, LAMBDA kw : Contains(full_url, kw))

\* the lexical and structural features of the URL string, from the parts
\* urlparse and tldextract give
UrlStructFeaturesOf(url, hostname, path, ext, matched_keywords) ==
        [url_length           |-> Len(url),
         num_dots             |-> CountIn(url, {"."}),
         num_hyphens          |-> CountIn(url, {"-"}),
         special_char_count   |-> CountIn(url, SpecialChars),
         num_digits_in_domain |-> CountIn(hostname, Digits),
         path_depth           |-> CountIn(Strip(path, {"/"}), {"/"}),
         has_ip_in_url        |-> HasIpInUrl(hostname),
         num_subdomains       |-> IF ext.subdomain # <<>>
                                  THEN Len(Split(ext.subdomain, ".")) ELSE 0,
         matched_keywords     |-> matched_keywords,
         suspicious_patterns  |-> Len(matched_keywords),
         has_suspicious_tld   |-> DottedSuffix(ext) \in SUSPICIOUS_TLDS,
         is_url_shortener     |-> \E s \in url_shorteners : Contains(hostname, s),
         pct_encoded_count    |-> PctEncodedCount(url),
         has_double_encoding  |-> HasDoubleEncoding(url),
         has_at_symbol        |-> Contains(UrlNetloc(url), <<"@">>),
         has_punycode         |-> Contains(hostname, <<"x", "n", "-", "-">>),
         domain               |-> ext.domain,
         suffix               |-> DottedSuffix(ext),
         subdomain            |-> ext.subdomain]

UrlStructFeatures(url) ==
    UrlStructFeaturesOf(url, UrlHostname(url), UrlPath(url), TldExtract(url),
                        MatchedKeywords(Lower(url)))

\* the dict analyze_url_structure returns for the features f and the rules
\* they trigger
UrlStructResult(f, rules) ==
        [url_length          |-> f.url_length,
         num_subdomains      |-> f.num_subdomains,
         has_ip_in_url       |-> f.has_ip_in_url,
         suspicious_patterns |-> f.suspicious_patterns,
         special_char_count  |-> f.special_char_count,
         num_hyphens         |-> f.num_hyphens,
         num_dots            |-> f.num_dots,
         path_depth          |-> f.path_depth,
         pct_encoded_count   |-> f.pct_encoded_count,
         has_at_symbol       |-> f.has_at_symbol,
         has_punycode        |-> f.has_punycode,
         is_url_shortener    |-> f.is_url_shortener,
         has_suspicious_tld  |-> f.has_suspicious_tld,
         matched_keywords    |-> f.matched_keywords,
         rule_score          |-> UrlStructScore(SumDeltas(rules)),
         rules_triggered     |-> rules,
         domain              |-> f.domain,
         suffix              |-> f.suffix,
         subdomain           |-> f.subdomain]

UrlStructOf(f) == UrlStructResult(f, UrlStructRules(f))

analyze_url_structure(url) == UrlStructOf(UrlStructFeatures(url))

(***************************************************************************)
(* The URL inputs the model scans: the four Quick Examples of app.py and   *)
(* inputs that meet each branch of normalisation, validation and the       *)
(* lexical rules.                                                          *)
(***************************************************************************)
\* ''
U_blank ==
    <<>>

\* 'google.com'
U_google_bare ==
    <<"g", "o", "o", "g", "l", "e", ".", "c", "o", "m">>

\* 'https://google.com'
U_google ==
    <<"h", "t", "t", "p", "s", ":", "/", "/", "g", "o", "o", "g", "l", "e",
    ".", "c", "o", "m">>

\* 'http://secure-login-verify.xyz/account/update'
U_new_domain ==
    <<"h", "t", "t", "p", ":", "/", "/", "s", "e", "c", "u", "r", "e", "-",
    "l", "o", "g", "i", "n", "-", "v", "e", "r", "i", "f", "y", ".", "x", "y",
    "z", "/", "a", "c", "c", "o", "u", "n", "t", "/", "u", "p", "d", "a", "t",
    "e">>

\* 'http://192.168.1.1/login/verify/credentials'
U_ip ==
    <<"h", "t", "t", "p", ":", "/", "/", "1", "9", "2", ".", "1", "6", "8",
    ".", "1", ".", "1", "/", "l", "o", "g", "i", "n", "/", "v", "e", "r", "i",
    "f", "y", "/", "c", "r", "e", "d", "e", "n", "t", "i", "a", "l", "s">>

\* 'https://paypal-secure-verify-account.tk/signin/confirm'
U_phishing ==
    <<"h", "t", "t", "p", "s", ":", "/", "/", "p", "a", "y", "p", "a", "l",
    "-", "s", "e", "c", "u", "r", "e", "-", "v", "e", "r", "i", "f", "y", "-",
    "a", "c", "c", "o", "u", "n", "t", ".", "t", "k", "/", "s", "i", "g", "n",
    "i", "n", "/", "c", "o", "n", "f", "i", "r", "m">>

\* 'evil-site.tk'
U_blacklisted ==
    <<"e", "v", "i", "l", "-", "s", "i", "t", "e", ".", "t", "k">>

\* 'https:///path'
U_no_host ==
    <<"h", "t", "t", "p", "s", ":", "/", "/", "/", "p", "a", "t", "h">>

\* 'HTTP://x.com'
U_upper_scheme ==
    <<"H", "T", "T", "P", ":", "/", "/", "x", ".", "c", "o", "m">>

\* 'https://:80'
U_port_only ==
    <<"h", "t", "t", "p", "s", ":", "/", "/", ":", "8", "0">>

\* 'http://user@www.paypal.com.secure-login.evil-site.tk/a%20b%2520c%41/verify?x=1&y=2#f!'
U_obfuscated ==
    <<"h", "t", "t", "p", ":", "/", "/", "u", "s", "e", "r", "@", "w", "w",
    "w", ".", "p", "a", "y", "p", "a", "l", ".", "c", "o", "m", ".", "s", "e",
    "c", "u", "r", "e", "-", "l", "o", "g", "i", "n", ".", "e", "v", "i", "l",
    "-", "s", "i", "t", "e", ".", "t", "k", "/", "a", "%", "2", "0", "b", "%",
    "2", "5", "2", "0", "c", "%", "4", "1", "/", "v", "e", "r", "i", "f", "y",
    "?", "x", "=", "1", "&", "y", "=", "2", "#", "f", "!">>

\* 'https://bit.ly/a'
U_shortener ==
    <<"h", "t", "t", "p", "s", ":", "/", "/", "b", "i", "t", ".", "l", "y",
    "/", "a">>

\* ' https://github.com '
U_padded ==
    <<" ", "h", "t", "t", "p", "s", ":", "/", "/", "g", "i", "t", "h", "u",
    "b", ".", "c", "o", "m", " ">>

\* 'ftp://files.example.org'
U_ftp ==
    <<"f", "t", "p", ":", "/", "/", "f", "i", "l", "e", "s", ".", "e", "x",
    "a", "m", "p", "l", "e", ".", "o", "r", "g">>

\* 'https://xn--pple-43d.com/'
U_punycode ==
    <<"h", "t", "t", "p", "s", ":", "/", "/", "x", "n", "-", "-", "p", "p",
    "l", "e", "-", "4", "3", "d", ".", "c", "o", "m", "/">>

\* '?q=1'
U_query_only ==
    <<"?", "q", "=", "1">>

\* 'https://a.b.example.co.uk/x/y'
U_subdomains ==
    <<"h", "t", "t", "p", "s", ":", "/", "/", "a", ".", "b", ".", "e", "x",
    "a", "m", "p", "l", "e", ".", "c", "o", ".", "u", "k", "/", "x", "/",
    "y">>

\* 'https://shop2024.example-store.com'
U_digits ==
    <<"h", "t", "t", "p", "s", ":", "/", "/", "s", "h", "o", "p", "2", "0",
    "2", "4", ".", "e", "x", "a", "m", "p", "l", "e", "-", "s", "t", "o", "r",
    "e", ".", "c", "o", "m">>

UrlInputs ==
    {U_blank,
     U_google_bare,
     U_google,
     U_new_domain,
     U_ip,
     U_phishing,
     U_blacklisted,
     U_no_host,
     U_upper_scheme,
     U_port_only,
     U_obfuscated,
     U_shortener,
     U_padded,
     U_ftp,
     U_punycode,
     U_query_only,
     U_subdomains,
     U_digits}

(***************************************************************************)
(* Exceptions.  An except clause catches an exception when it names the    *)
(* exception's class or one of its base classes; the clauses of a try      *)
(* statement are tried in order.                                           *)
(***************************************************************************)
BaseClasses(exc) ==
    CASE exc = "whois.PywhoisError"          -> {"Exception"}
      [] exc = "IndexError"                  -> {"LookupError", "Exception"}
      [] exc = "ValueError"                  -> {"Exception"}
      [] exc = "socket.timeout"              -> {"OSError", "Exception"}
      [] exc = "socket.gaierror"             -> {"OSError", "Exception"}
      [] exc = "ConnectionRefusedError"      -> {"ConnectionError", "OSError", "Exception"}
      [] exc = "ConnectionResetError"        -> {"ConnectionError", "OSError", "Exception"}
      [] exc = "ssl.SSLError"                -> {"OSError", "Exception"}
      [] exc = "ssl.SSLCertVerificationError" ->
             {"ssl.SSLError", "ValueError", "OSError", "Exception"}
      [] exc = "requests.TooManyRedirects"   ->
             {"requests.RequestException", "OSError", "Exception"}
      [] exc = "requests.SSLError"           ->
             {"requests.ConnectionError", "requests.RequestException", "OSError",
              "Exception"}
      [] exc = "requests.ConnectionError"    ->
             {"requests.RequestException", "OSError", "Exception"}
      [] exc = "requests.ConnectTimeout"     ->
             {"requests.ConnectionError", "requests.Timeout",
              "requests.RequestException", "OSError", "Exception"}
      [] exc = "requests.ReadTimeout"        ->
             {"requests.Timeout", "requests.RequestException", "OSError", "Exception"}
      [] exc = "requests.InvalidURL"         ->
             {"requests.RequestException", "ValueError", "OSError", "Exception"}
      [] exc = "pickle.UnpicklingError"      -> {"pickle.PickleError", "Exception"}
      [] exc = "PermissionError"             -> {"OSError", "Exception"}
      [] OTHER                               -> {"Exception"}

Catches(classes, exc) == exc \in classes \/ BaseClasses(exc) \cap classes # {}

\* the index of the first except clause that catches exc, 0 when none does
FirstHandler(clauses, exc) ==
    IF \E i \in 1..Len(clauses) : Catches(clauses[i], exc)
    THEN CHOOSE i \in 1..Len(clauses) :
             Catches(clauses[i], exc) /\ \A j \in 1..(i - 1) : ~Catches(clauses[j], exc)
    ELSE 0

\* what a function gives when an exception leaves it
Raise(exc) == [raised |-> exc]

IsRaise(r) == "raised" \in DOMAIN r

(***************************************************************************)
(* Parameter 2: domain analysis, WHOIS and age (scanner.py, analyze_domain)*)
(* The lookup w is what python_whois.whois does for this call:             *)
(*   exc           "none", or the exception raised inside the try block    *)
(*   late          the exception is raised after the creation date has     *)
(*                 been processed (expiry[0] of an empty list)             *)
(*   has_creation  w.creation_date is set                                  *)
(*   age           (now - creation).days                                   *)
(* The registrar, country and expiry texts are display data only.          *)
(***************************************************************************)
DomainDefault(whois_available) ==
    [domain_age_days     |-> -1,
     creation_date       |-> "None",
     is_newly_registered |-> TRUE,
     rule_score          |-> 0,
     rules_triggered     |-> <<>>,
     whois_available     |-> whois_available]

\* the except clauses as a fault would have them: the WHOIS library's own
\* error only
DomainExceptWhoisOnly == <<{"whois.PywhoisError"}>>

\* the except clauses of analyze_domain's try statement
DomainExcept == <<{"Exception"}>>

\* lines 249-258: the creation date, when there is one, sets the age
DomainCreation(result, w) ==
    IF w.has_creation
    THEN [result EXCEPT !.domain_age_days     = w.age,
                        !.creation_date       = "date",
                        !.is_newly_registered = (w.age < 180)]
    ELSE result

\* the age rules without the test for the unknown age
DomainAgeRulesUnknownAsNew(age) ==
    IF age < 30 THEN <<Rule("Very new domain", 20)>>
    ELSE IF age < 180 THEN <<Rule("Recently registered domain", 12)>>
    ELSE IF age < 365 THEN <<Rule("Relatively new domain", 5)>>
    ELSE <<>>

\* lines 275-294: the age rules
DomainAgeRules(age) ==
    IF age = -1 THEN <<Rule("Domain age unknown", 10)>>
    ELSE IF age < 30 THEN <<Rule("Very new domain", 20)>>
    ELSE IF age < 180 THEN <<Rule("Recently registered domain", 12)>>
    ELSE IF age < 365 THEN <<Rule("Relatively new domain", 5)>>
    ELSE <<>>

\* the stage's cap: result["rule_score"] = min(score, 25)
DomainScore(score) == Min(score, 25)

\* the result dict as the try block leaves it: an exception raised before
\* the creation date is read leaves the defaults
DomainTried(result, w) ==
    IF w.exc # "none" /\ ~w.late THEN result ELSE DomainCreation(result, w)

DomainRated(tried, rules) ==
    [tried EXCEPT !.rule_score = DomainScore(SumDeltas(rules)),
                  !.rules_triggered = rules]

DomainResult(registered, result, tried, w) ==
    IF registered \in BENIGN_DOMAINS
    THEN [result EXCEPT !.domain_age_days = 5000, !.is_newly_registered = FALSE]
    ELSE IF ~result.whois_available
    THEN [result EXCEPT !.rule_score = 8,
                        !.rules_triggered = <<Rule("WHOIS unavailable", 8)>>]
    ELSE IF w.exc # "none"
    THEN IF FirstHandler(DomainExcept, w.exc) = 1
         THEN [tried EXCEPT !.rule_score = 5,
                            !.rules_triggered = <<Rule("WHOIS lookup failed", 5)>>]
         ELSE Raise(w.exc)
    ELSE DomainRated(tried, DomainAgeRules(tried.domain_age_days))

analyze_domain(url, whois_available, w) ==
    DomainResult(Registered(url), DomainDefault(whois_available),
                 DomainTried(DomainDefault(whois_available), w), w)

(***************************************************************************)
(* Parameter 3: SSL/HTTPS validity (scanner.py, analyze_ssl).              *)
(* The connection c is what the TLS handshake on port 443 does:            *)
(*   exc            "none", or the exception raised inside the try block   *)
(*   has_not_after  the certificate carries notAfter                       *)
(*   days_left      (expire_dt - utcnow()).days                            *)
(*   self_signed    issuer == subject                                      *)
(* The issuer, subject and version texts are display data only.            *)
(***************************************************************************)
HTTPS == <<"h", "t", "t", "p", "s">>

SslDefault(has_https) ==
    [has_https       |-> has_https,
     has_valid_ssl   |-> FALSE,
     ssl_days_left   |-> "None",
     is_self_signed  |-> FALSE,
     rule_score      |-> 0,
     rules_triggered |-> <<>>]

\* the except clauses of analyze_ssl's try statement, in order
SslExcept ==
    <<{"ssl.SSLError"},
      {"socket.timeout", "socket.gaierror", "ConnectionRefusedError"},
      {"Exception"}>>

\* lines 347-348: days_left = 999 when the certificate has no notAfter
SslDaysLeft(c) == IF c.has_not_after THEN c.days_left ELSE 999

\* lines 367-383: the certificate rules
SslRules(self_signed, days_left) ==
       (IF self_signed THEN <<Rule("Self-signed SSL certificate", 15)>> ELSE <<>>)
    \o (IF days_left < 0 THEN <<Rule("SSL certificate EXPIRED", 18)>>
        ELSE IF days_left < 15 THEN <<Rule("SSL certificate expiring very soon", 10)>>
        ELSE IF days_left < 30 THEN <<Rule("SSL certificate expiring soon", 5)>>
        ELSE <<>>)

\* the TLS score without its cap
SslScoreUncapped(score) == score

\* the stage's cap: result["rule_score"] = min(score, 20)
SslScore(score) == Min(score, 20)

\* lines 340-386: the handshake succeeded
SslChecked(result, c, rules) ==
    [result EXCEPT !.has_valid_ssl   = TRUE,
                   !.ssl_days_left   = IF c.has_not_after THEN c.days_left ELSE "None",
                   !.is_self_signed  = c.self_signed,
                   !.rule_score      = SslScore(SumDeltas(rules)),
                   !.rules_triggered = rules]

\* handler is the except clause that catches c.exc (0: none does)
SslResult(hostname, result, c, handler) ==
    IF ~result.has_https
    THEN [result EXCEPT !.rule_score = 20,
                        !.rules_triggered = <<Rule("No HTTPS", 20)>>]
    ELSE IF hostname = <<>>
    THEN [result EXCEPT !.rule_score = 5,
                        !.rules_triggered =
                            <<Rule("Could not determine hostname for SSL check", 5)>>]
    ELSE IF c.exc = "none"
    THEN SslChecked(result, c, SslRules(c.self_signed, SslDaysLeft(c)))
    ELSE IF handler = 1
    THEN [result EXCEPT !.rule_score = 18,
                        !.rules_triggered = <<Rule("SSL validation failed", 18)>>]
    ELSE IF handler = 2
    THEN [result EXCEPT !.rule_score = 8,
                        !.rules_triggered =
                            <<Rule("Could not connect to host for SSL check", 8)>>]
    ELSE IF handler = 3
    THEN [result EXCEPT !.rule_score = 5,
                        !.rules_triggered = <<Rule("SSL check error", 5)>>]
    ELSE Raise(c.exc)

analyze_ssl(url, c) ==
    SslResult(UrlHostname(url), SslDefault(Lower(UrlScheme(url)) = HTTPS), c,
              FirstHandler(SslExcept, c.exc))

(***************************************************************************)
(* Parameter 4: blacklist check (scanner.py, check_blacklist)              *)
(***************************************************************************)
\* hashlib.md5(registered.encode()).hexdigest()[:16], tabulated for the
\* registrable domains of the modelled inputs and of the local blacklist
Md5Table ==
    {<<<<>>,
       <<"d", "4", "1", "d", "8", "c", "d", "9", "8", "f", "0", "0", "b", "2", "0", "4">>>>,
     <<<<"g", "o", "o", "g", "l", "e", ".", "c", "o", "m">>,
       <<"1", "d", "5", "9", "2", "0", "f", "4", "b", "4", "4", "b", "2", "7", "a", "8">>>>,
     <<<<"s", "e", "c", "u", "r", "e", "-", "l", "o", "g", "i", "n", "-", "v", "e", "r", "i", "f", "y", ".", "x", "y", "z">>,
       <<"b", "4", "6", "5", "7", "6", "9", "a", "c", "0", "6", "5", "7", "6", "9", "6">>>>,
     <<<<"1", "9", "2", ".", "1", "6", "8", ".", "1", ".", "1">>,
       <<"6", "6", "e", "f", "f", "f", "4", "c", "9", "4", "5", "d", "3", "c", "3", "b">>>>,
     <<<<"p", "a", "y", "p", "a", "l", "-", "s", "e", "c", "u", "r", "e", "-", "v", "e", "r", "i", "f", "y", "-", "a", "c", "c", "o", "u", "n", "t", ".", "t", "k">>,
       <<"2", "6", "7", "2", "7", "c", "1", "5", "e", "a", "0", "5", "6", "b", "c", "a">>>>,
     <<<<"e", "v", "i", "l", "-", "s", "i", "t", "e", ".", "t", "k">>,
       <<"3", "3", "4", "e", "2", "a", "a", "0", "d", "2", "0", "9", "7", "c", "2", "f">>>>,
     <<<<"H", "T", "T", "P">>,
       <<"2", "9", "3", "c", "9", "e", "a", "2", "4", "6", "f", "f", "9", "9", "8", "5">>>>,
     <<<<"b", "i", "t", ".", "l", "y">>,
       <<"6", "0", "4", "d", "5", "c", "5", "e", "c", "6", "7", "d", "f", "1", "a", "1">>>>,
     <<<<"g", "i", "t", "h", "u", "b", ".", "c", "o", "m">>,
       <<"9", "9", "c", "d", "2", "1", "7", "5", "1", "0", "8", "d", "1", "5", "7", "5">>>>,
     <<<<"f", "t", "p">>,
       <<"f", "f", "1", "0", "4", "b", "2", "d", "f", "a", "b", "9", "f", "e", "8", "c">>>>,
     <<<<"x", "n", "-", "-", "p", "p", "l", "e", "-", "4", "3", "d", ".", "c", "o", "m">>,
       <<"2", "8", "4", "0", "1", "1", "5", "5", "5", "4", "7", "0", "1", "8", "6", "3">>>>,
     <<<<"e", "x", "a", "m", "p", "l", "e", ".", "c", "o", ".", "u", "k">>,
       <<"9", "c", "9", "d", "1", "5", "6", "f", "0", "8", "d", "d", "6", "a", "8", "8">>>>,
     <<<<"e", "x", "a", "m", "p", "l", "e", "-", "s", "t", "o", "r", "e", ".", "c", "o", "m">>,
       <<"f", "1", "9", "8", "5", "8", "6", "b", "c", "b", "3", "0", "f", "9", "6", "f">>>>,
     <<<<"e", "x", "a", "m", "p", "l", "e", ".", "o", "r", "g">>,
       <<"1", "b", "d", "f", "7", "2", "e", "0", "4", "d", "6", "b", "5", "0", "c", "8">>>>,
     <<<<"m", "a", "l", "w", "a", "r", "e", "-", "t", "e", "s", "t", ".", "c", "o", "m">>,
       <<"f", "7", "7", "a", "8", "a", "8", "1", "0", "0", "d", "9", "a", "1", "5", "0">>>>,
     <<<<"p", "h", "i", "s", "h", "i", "n", "g", "-", "e", "x", "a", "m", "p", "l", "e", ".", "n", "e", "t">>,
       <<"c", "9", "5", "f", "c", "5", "4", "8", "f", "d", "7", "2", "b", "4", "0", "d">>>>,
     <<<<"f", "a", "k", "e", "p", "a", "y", "p", "a", "l", "-", "s", "e", "c", "u", "r", "e", ".", "c", "o", "m">>,
       <<"9", "d", "c", "0", "1", "a", "a", "4", "8", "7", "4", "f", "5", "a", "9", "c">>>>,
     <<<<"l", "o", "g", "i", "n", "-", "a", "m", "a", "z", "o", "n", "-", "v", "e", "r", "i", "f", "y", ".", "x", "y", "z">>,
       <<"0", "2", "4", "3", "6", "1", "c", "6", "1", "5", "c", "b", "2", "f", "3", "d">>>>}

Md5Hex16(registered) == (CHOOSE row \in Md5Table : row[1] = registered)[2]

\* lines 415-426: the sources that list the domain
BlacklistSources(local, hashed) ==
       (IF local THEN <<"Local Threat Database">> ELSE <<>>)
    \o (IF hashed THEN <<"Threat Hash Database">> ELSE <<>>)

BlacklistResult(is_blacklisted, sources) ==
    [is_blacklisted    |-> is_blacklisted,
     blacklist_sources |-> sources,
     rule_score        |-> IF is_blacklisted THEN 40 ELSE 0,
     rules_triggered   |-> IF is_blacklisted
                           THEN <<Rule("Domain flagged in blacklist", 40)>>
                           ELSE <<>>]

\* the flag taken from the hash source alone
BlacklistOfHashOnly(local, hashed) ==
    BlacklistResult(hashed, BlacklistSources(local, hashed))

BlacklistOf(local, hashed) ==
    BlacklistResult(local \/ hashed, BlacklistSources(local, hashed))

BlacklistLookup(registered) ==
    BlacklistOf(registered \in BLACKLISTED_DOMAINS_SAMPLE,
                Md5Hex16(registered) \in DEMO_MALICIOUS_HASHES)

check_blacklist(url) == BlacklistLookup(Registered(url))

(***************************************************************************)
(* Parameter 5: redirect chain analysis (scanner.py, analyze_redirects).   *)
(* The response resp is what session.get does:                             *)
(*   exc      "none", or the exception it raises                           *)
(*   history  resp.history: the redirect responses, each with url and      *)
(*            status_code                                                  *)
(*   final    the last response                                            *)
(***************************************************************************)
MAX_REDIRECTS == 10

RedirectsDefault(url) ==
    [redirect_count      |-> 0,
     redirect_chain      |-> <<>>,
     final_url           |-> url,
     crosses_domains     |-> FALSE,
     has_suspicious_hops |-> FALSE,
     rule_score          |-> 0,
     rules_triggered     |-> <<>>]

\* the except clauses of analyze_redirects' try statement, in order
RedirectsExcept ==
    <<{"requests.TooManyRedirects"},
      {"requests.SSLError"},
      {"requests.ConnectionError"},
      {"requests.Timeout"},
      {"Exception"}>>

\* lines 476-488: one chain entry per response
Hop(r) == [url |-> r.url, status_code |-> r.status_code, scheme |-> UrlScheme(r.url)]

RedirectChain(resp) ==
    [i \in 1..Len(resp.history) |-> Hop(resp.history[i])] \o <<Hop(resp.final)>>

\* lines 495-498: f"{ext.domain}.{ext.suffix}" of every hop
HopDomain(ext) == ext.domain \o <<".">> \o ext.suffix

DomainsVisited(chain) == {HopDomain(TldExtract(chain[i].url)) : i \in 1..Len(chain)}

\* lines 502-505: an https hop followed by an http hop
HasDowngrade(chain) ==
    \E i \in 1..(Len(chain) - 1) :
        chain[i].scheme = HTTPS /\ chain[i + 1].scheme = <<"h", "t", "t", "p">>

\* lines 507-525: the redirect rules
RedirectRules(rc, crosses_domains, has_suspicious_hops) ==
       (IF rc >= 5 THEN <<Rule("Excessive redirects", 15)>>
        ELSE IF rc >= 3 THEN <<Rule("Multiple redirects", 8)>>
        ELSE <<>>)
    \o (IF crosses_domains
        THEN <<Rule("Redirect chain crosses different domains", 10)>> ELSE <<>>)
    \o (IF has_suspicious_hops
        THEN <<Rule("HTTPS to HTTP downgrade in redirect chain", 12)>> ELSE <<>>)

\* the redirect score without its cap
RedirectsScoreUncapped(score) == score

\* the stage's cap: result["rule_score"] = min(score, 20)
RedirectsScore(score) == Min(score, 20)

RedirectsRated(followed, rules) ==
    [followed EXCEPT !.rule_score      = RedirectsScore(SumDeltas(rules)),
                     !.rules_triggered = rules]

\* lines 471-527: session.get returned
RedirectsFollowed(result, resp, chain, crosses, downgrade) ==
    RedirectsRated([result EXCEPT !.redirect_count      = Len(resp.history),
                                  !.redirect_chain      = chain,
                                  !.final_url           = resp.final.url,
                                  !.crosses_domains     = crosses,
                                  !.has_suspicious_hops = downgrade],
                   RedirectRules(Len(resp.history), crosses, downgrade))

RedirectsOfChain(result, resp, chain) ==
    RedirectsFollowed(result, resp, chain, Cardinality(DomainsVisited(chain)) > 2,
                      HasDowngrade(chain))

\* handler is the except clause that catches resp.exc (0: none does)
RedirectsResult(result, resp, handler) ==
    IF resp.exc = "none"
    THEN RedirectsOfChain(result, resp, RedirectChain(resp))
    ELSE IF handler = 1
    THEN [result EXCEPT !.redirect_count  = MAX_REDIRECTS,
                        !.rule_score      = 18,
                        !.rules_triggered = <<Rule("Redirect loop detected", 18)>>]
    ELSE IF handler = 2
    THEN [result EXCEPT !.rule_score      = 5,
                        !.rules_triggered =
                            <<Rule("SSL error during redirect follow", 5)>>]
    ELSE IF handler = 3
    THEN [result EXCEPT !.rule_score      = 5,
                        !.rules_triggered =
                            <<Rule("Could not connect to host for redirect analysis", 5)>>]
    ELSE IF handler = 4
    THEN [result EXCEPT !.rule_score      = 3,
                        !.rules_triggered =
                            <<Rule("Connection timed out during redirect check", 3)>>]
    ELSE IF handler = 5
    THEN [result EXCEPT !.rule_score      = 3,
                        !.rules_triggered = <<Rule("Redirect analysis error", 3)>>]
    ELSE Raise(resp.exc)

\* a session that follows every redirect the remote sends
SessionGetUnlimited(max_redirects, remote) == remote

\* lines 458-470: session.max_redirects = MAX_REDIRECTS, then session.get with
\* allow_redirects: requests follows at most max_redirects redirects and raises
\* TooManyRedirects when the remote sends one more
SessionGet(max_redirects, remote) ==
    IF remote.exc = "none" /\ Len(remote.history) > max_redirects
    THEN [remote EXCEPT !.exc = "requests.TooManyRedirects"]
    ELSE remote

analyze_redirects(url, resp) ==
    RedirectsResult(RedirectsDefault(url), resp, FirstHandler(RedirectsExcept, resp.exc))

(***************************************************************************)
(* The scoring engine (ml_model.py).                                       *)
(* Raw Isolation Forest scores are integers in units of 0.00001; scores on *)
(* the 0-100 scale are integers in hundredths (round(x, 2)).               *)
(***************************************************************************)
FEATURE_NAMES ==
    <<"url_length", "num_subdomains", "has_https", "domain_age_days",
      "redirect_count", "is_blacklisted", "has_ip_in_url", "suspicious_patterns",
      "has_valid_ssl", "special_char_count", "num_hyphens", "path_depth",
      "pct_encoded_count", "has_at_symbol", "is_url_shortener">>

\* RULE_WEIGHT = 0.60 and ML_WEIGHT = 0.40, in hundredths
RULE_WEIGHT == 60

ML_WEIGHT == 40

\* SCORE_MIN, SCORE_MAX = -0.8, 0.2, in units of 0.00001
SCORE_MIN == -80000

SCORE_MAX == 20000

\* one unit of a 0-100 score is a hundredth of a point
Points(n) == n * 100

\* round(n / d) to the nearest integer, ties to even, for d > 0
RoundDiv(n, d) ==
    LET q == n \div d
        r == n % d
    IN  IF 2 * r < d THEN q
        ELSE IF 2 * r > d THEN q + 1
        ELSE IF q % 2 = 0 THEN q ELSE q + 1

\* dict.get(key, default)
Get(dict, key, default) == IF key \in DOMAIN dict THEN dict[key] ELSE default

\* np.array([[feature_vector.get(f, 0) for f in FEATURE_NAMES]])
extract_feature_array(feature_vector) ==
    [i \in 1..Len(FEATURE_NAMES) |-> Get(feature_vector, FEATURE_NAMES[i], 0)]

\* offset_ of the fitted IsolationForest (contamination = 0.20): the decision
\* threshold on the raw score, in units of 0.00001.  The corpus and the fit
\* are seeded, so every training run gives the same parameters.
FittedOffset == -50000

\* a pickle file: absent, corrupt (pickle.load raises), or holding parameters
\* fitted on n_features_in columns
AbsentFile == [kind |-> "absent", n_features_in |-> 0, offset |-> 0]

CorruptFile == [kind |-> "corrupt", n_features_in |-> 0, offset |-> 0]

ParamsFile(n, offset) == [kind |-> "params", n_features_in |-> n, offset |-> offset]

\* what train_model pickles: model and scaler fitted on df[FEATURE_NAMES]
TrainedModel == ParamsFile(Len(FEATURE_NAMES), FittedOffset)

TrainedScaler == ParamsFile(Len(FEATURE_NAMES), 0)

\* the raw score mapped without being clamped
NormalizeRawScoreUnclamped(raw_score) ==
    RoundDiv((SCORE_MAX - raw_score) * Points(100), SCORE_MAX - SCORE_MIN)

\* lines 204-207: the raw score clamped and mapped to 0..100
NormalizeRawScore(raw_score) ==
    LET clamped == Max(SCORE_MIN, Min(SCORE_MAX, raw_score))
    IN  RoundDiv((SCORE_MAX - clamped) * Points(100), SCORE_MAX - SCORE_MIN)

\* the label with the boundary -0.15 counted as High
AnomalyConfidenceInclusive(decision) ==
    IF decision <= -15000 THEN "High" ELSE IF decision < 0 THEN "Medium" ELSE "Low"

\* line 216, with the margin in units of 0.00001
AnomalyConfidence(decision) ==
    IF decision < -15000 THEN "High" ELSE IF decision < 0 THEN "Medium" ELSE "Low"

\* the scorer as a fault would have it: the columns of X never checked against
\* those the scaler and the model were fitted on
compute_ml_anomaly_score_unchecked(feature_vector, model, scaler, raw_score) ==
    LET decision == raw_score - model.offset
    IN  [ml_anomaly_score   |-> NormalizeRawScore(raw_score),
         is_anomaly         |-> decision < 0,
         raw_if_score       |-> raw_score,
         if_decision        |-> decision,
         anomaly_confidence |-> AnomalyConfidence(decision)]

\* raw_score is what model.score_samples returns for X; scaler.transform and
\* the model raise ValueError when X has another number of columns than they
\* were fitted on; decision_function is score_samples - offset_
compute_ml_anomaly_score(feature_vector, model, scaler, raw_score) ==
    LET X        == extract_feature_array(feature_vector)
        decision == raw_score - model.offset
    IN  IF Len(X) # scaler.n_features_in \/ Len(X) # model.n_features_in
        THEN Raise("ValueError")
        ELSE [ml_anomaly_score   |-> NormalizeRawScore(raw_score),
              is_anomaly         |-> decision < 0,
              raw_if_score       |-> raw_score,
              if_decision        |-> decision,
              anomaly_confidence |-> AnomalyConfidence(decision)]

\* the weighted sum with the two weights exchanged
WeightedHybridSwapped(rule_score, ml_score) ==
    RoundDiv(Min(ML_WEIGHT * Points(rule_score) + RULE_WEIGHT * ml_score,
                 100 * Points(100)),
             100)

\* lines 230-231: the weighted sum, capped at 100 and rounded to 2 decimals
\* (rule_score in points, ml_score in hundredths)
WeightedHybrid(rule_score, ml_score) ==
    RoundDiv(Min(RULE_WEIGHT * Points(rule_score) + ML_WEIGHT * ml_score,
                 100 * Points(100)),
             100)

\* the overrides as a fault would have them: the blacklist floor added to the
\* score instead of taken as its minimum
ApplyOverridesAdded(hybrid, feature_vector) ==
    LET blacklisted == IF Get(feature_vector, "is_blacklisted", 0) # 0
                       THEN hybrid + Points(80) ELSE hybrid
    IN  IF Get(feature_vector, "has_ip_in_url", 0) # 0
        THEN Max(blacklisted, Points(60)) ELSE blacklisted

\* the overrides as a fault would have them: each floor assigned, so that the
\* later one replaces the earlier
ApplyOverridesAssigned(hybrid, feature_vector) ==
    LET blacklisted == IF Get(feature_vector, "is_blacklisted", 0) # 0
                       THEN Points(80) ELSE hybrid
    IN  IF Get(feature_vector, "has_ip_in_url", 0) # 0
        THEN Points(60) ELSE blacklisted

\* lines 234-237: the hard overrides
ApplyOverrides(hybrid, feature_vector) ==
    LET blacklisted == IF Get(feature_vector, "is_blacklisted", 0) # 0
                       THEN Max(hybrid, Points(80)) ELSE hybrid
    IN  IF Get(feature_vector, "has_ip_in_url", 0) # 0
        THEN Max(blacklisted, Points(60)) ELSE blacklisted

\* the classification as a fault would have it: the boundaries excluded
ThreatLevelStrict(hybrid) ==
    IF hybrid > Points(70) THEN "High Risk"
    ELSE IF hybrid > Points(40) THEN "Suspicious"
    ELSE "Safe"

\* lines 240-251: the threat classification
ThreatLevel(hybrid) ==
    IF hybrid >= Points(70) THEN "High Risk"
    ELSE IF hybrid >= Points(40) THEN "Suspicious"
    ELSE "Safe"

\* the same with the rule score reported as its weighted share
compute_hybrid_risk_score_weighted(rule_score, ml_score, feature_vector) ==
    LET hybrid == ApplyOverrides(WeightedHybrid(rule_score, ml_score), feature_vector)
    IN  [risk_score   |-> hybrid,
         threat_level |-> ThreatLevel(hybrid),
         rule_score   |-> (RULE_WEIGHT * rule_score) \div 100,
         ml_score     |-> ml_score,
         rule_weight  |-> RULE_WEIGHT,
         ml_weight    |-> ML_WEIGHT]

compute_hybrid_risk_score(rule_score, ml_score, feature_vector) ==
    LET hybrid == ApplyOverrides(WeightedHybrid(rule_score, ml_score), feature_vector)
    IN  [risk_score   |-> hybrid,
         threat_level |-> ThreatLevel(hybrid),
         rule_score   |-> rule_score,
         ml_score     |-> ml_score,
         rule_weight  |-> RULE_WEIGHT,
         ml_weight    |-> ML_WEIGHT]

(***************************************************************************)
(* Loading and training (ml_model.py, load_model and train_model).         *)
(* disk holds the two pickle files and whether open(path, "wb") succeeds.  *)
(***************************************************************************)
\* train_model: fits model and scaler and writes both files; open() raises
\* when they cannot be written (the fit is done by then)
train_model(disk) ==
    IF ~disk.writable THEN [raised |-> "PermissionError", trained |-> TRUE]
    ELSE [model   |-> TrainedModel,
          scaler  |-> TrainedScaler,
          trained |-> TRUE,
          disk    |-> [disk EXCEPT !.model_file  = TrainedModel,
                                   !.scaler_file = TrainedScaler]]

\* the except clause of load_model's try statement
LoadExcept == <<{"Exception"}>>

\* load_model as a fault would have it: a fresh model trained on every call
load_model_retraining(disk) == train_model(disk)

\* load_model: both files exist and unpickle, or a fresh model is trained
load_model(disk) ==
    LET exists == disk.model_file.kind # "absent" /\ disk.scaler_file.kind # "absent"
        loads  == disk.model_file.kind = "params" /\ disk.scaler_file.kind = "params"
    IN  IF exists /\ loads
        THEN [model   |-> disk.model_file,
              scaler  |-> disk.scaler_file,
              trained |-> FALSE,
              disk    |-> disk]
        ELSE IF exists /\ FirstHandler(LoadExcept, "pickle.UnpicklingError") = 0
        THEN [raised |-> "pickle.UnpicklingError", trained |-> FALSE]
        ELSE train_model(disk)

\* dict.update: the keys of new replace those of old
Update(old, new) == new @@ old

\* score_scan: load, score, combine, merge into scan_data
score_scan(scan_data, disk, raw_score) ==
    LET loaded         == load_model(disk)
        feature_vector == Get(scan_data, "feature_vector", <<>>)
        rule_score     == Get(scan_data, "rule_score", 0)
        ml_result      == compute_ml_anomaly_score(feature_vector, loaded.model,
                                                   loaded.scaler, raw_score)
        hybrid_result  == compute_hybrid_risk_score(rule_score,
                                                    ml_result.ml_anomaly_score,
                                                    feature_vector)
    IN  IF IsRaise(loaded)
        THEN [raised |-> loaded.raised, disk |-> disk, trained |-> loaded.trained]
        ELSE IF IsRaise(ml_result)
        THEN [raised |-> ml_result.raised, disk |-> loaded.disk, trained |-> loaded.trained]
        ELSE [scan_data |-> Update(Update(scan_data, ml_result), hybrid_result),
              disk      |-> loaded.disk,
              trained   |-> loaded.trained]

(***************************************************************************)
(* The composite scanner (scanner.py, scan_url)                            *)
(***************************************************************************)
HTTP_PREFIX == <<"h", "t", "t", "p", ":", "/", "/">>

HTTPS_PREFIX == <<"h", "t", "t", "p", "s", ":", "/", "/">>

\* lines 557-559: strip, then prepend https:// unless the text starts with
\* "http://" or "https://"
NormalizeUrl(raw) ==
    LET stripped == Strip(raw, Whitespace)
    IN  IF StartsWith(stripped, HTTP_PREFIX) \/ StartsWith(stripped, HTTPS_PREFIX)
        THEN stripped
        ELSE HTTPS_PREFIX \o stripped

\* the validation as a fault would have it: the scheme tested instead of the
\* authority
ValidUrlByScheme(url) == UrlScheme(url) # <<>>

\* lines 562-563: the URL is valid when parsed.netloc is not empty
ValidUrl(url) == UrlNetloc(url) # <<>>

ErrorRecord == [error |-> "Invalid URL format. Please include a valid domain."]

\* int(flag)
AsInt(flag) == IF flag THEN 1 ELSE 0

\* the sum of the stage scores without the cap of line 584
TotalRuleScoreUncapped(us, di, si, bl, rd) ==
    us.rule_score + di.rule_score + si.rule_score + bl.rule_score + rd.rule_score

\* lines 577-584: the five stage scores, capped at 100
TotalRuleScore(us, di, si, bl, rd) ==
    Min(us.rule_score + di.rule_score + si.rule_score + bl.rule_score + rd.rule_score,
        100)

\* the rule lists joined with the TLS stage's rules in front
AllRulesSslFirst(us, di, si, bl, rd) ==
    si.rules_triggered \o us.rules_triggered \o di.rules_triggered
        \o bl.rules_triggered \o rd.rules_triggered

\* lines 587-593
AllRules(us, di, si, bl, rd) ==
    us.rules_triggered \o di.rules_triggered \o si.rules_triggered
        \o bl.rules_triggered \o rd.rules_triggered

\* the feature vector as a fault would have it: one key misspelt, so that the
\* scorer finds no "num_hyphens"
FeatureVectorMisspelt(us, di, si, bl, rd) ==
    [url_length          |-> us.url_length,
     num_subdomains      |-> us.num_subdomains,
     has_https           |-> AsInt(si.has_https),
     domain_age_days     |-> di.domain_age_days,
     redirect_count      |-> rd.redirect_count,
     is_blacklisted      |-> AsInt(bl.is_blacklisted),
     has_ip_in_url       |-> AsInt(us.has_ip_in_url),
     suspicious_patterns |-> us.suspicious_patterns,
     has_valid_ssl       |-> AsInt(si.has_valid_ssl),
     special_char_count  |-> us.special_char_count,
     num_hyphen          |-> us.num_hyphens,
     path_depth          |-> us.path_depth,
     pct_encoded_count   |-> us.pct_encoded_count,
     has_at_symbol       |-> AsInt(us.has_at_symbol),
     is_url_shortener    |-> AsInt(us.is_url_shortener)]

\* lines 596-612: the feature vector for the model
FeatureVector(us, di, si, bl, rd) ==
    [url_length          |-> us.url_length,
     num_subdomains      |-> us.num_subdomains,
     has_https           |-> AsInt(si.has_https),
     domain_age_days     |-> di.domain_age_days,
     redirect_count      |-> rd.redirect_count,
     is_blacklisted      |-> AsInt(bl.is_blacklisted),
     has_ip_in_url       |-> AsInt(us.has_ip_in_url),
     suspicious_patterns |-> us.suspicious_patterns,
     has_valid_ssl       |-> AsInt(si.has_valid_ssl),
     special_char_count  |-> us.special_char_count,
     num_hyphens         |-> us.num_hyphens,
     path_depth          |-> us.path_depth,
     pct_encoded_count   |-> us.pct_encoded_count,
     has_at_symbol       |-> AsInt(us.has_at_symbol),
     is_url_shortener    |-> AsInt(us.is_url_shortener)]

\* lines 614-642: the dict scan_url returns
ScanData(u, us, di, si, bl, rd) ==
    [url                 |-> u,
     domain              |-> Registered(u),
     url_struct          |-> us,
     domain_info         |-> di,
     ssl_info            |-> si,
     blacklist           |-> bl,
     redirects           |-> rd,
     rule_score          |-> TotalRuleScore(us, di, si, bl, rd),
     all_rules           |-> AllRules(us, di, si, bl, rd),
     feature_vector      |-> FeatureVector(us, di, si, bl, rd),
     url_length          |-> us.url_length,
     num_subdomains      |-> us.num_subdomains,
     has_https           |-> si.has_https,
     domain_age_days     |-> di.domain_age_days,
     redirect_count      |-> rd.redirect_count,
     is_blacklisted      |-> bl.is_blacklisted,
     has_ip_in_url       |-> us.has_ip_in_url,
     suspicious_patterns |-> us.suspicious_patterns,
     has_valid_ssl       |-> si.has_valid_ssl,
     special_char_count  |-> us.special_char_count,
     redirect_chain      |-> rd.redirect_chain]

(***************************************************************************)
(* What the network does for one scan                                      *)
(***************************************************************************)
Lookup(exc, late, has_creation, age) ==
    [exc |-> exc, late |-> late, has_creation |-> has_creation, age |-> age]

\* one age for each age rule; -1 is a creation date less than a day in the
\* future
WhoisAges == {-1, 29, 179, 364, 365}

WhoisLookups ==
         {Lookup("whois.PywhoisError", FALSE, FALSE, 0)}
    \cup {Lookup("IndexError", TRUE, TRUE, 100)}
    \cup {Lookup("none", FALSE, FALSE, 0)}
    \cup {Lookup("none", FALSE, TRUE, a) : a \in WhoisAges}

Connection(exc, has_not_after, days_left, self_signed) ==
    [exc |-> exc, has_not_after |-> has_not_after, days_left |-> days_left,
     self_signed |-> self_signed]

TlsConnections ==
         {Connection(e, FALSE, 0, FALSE) :
             e \in {"ssl.SSLCertVerificationError", "socket.timeout",
                    "ConnectionResetError"}}
    \cup {Connection("none", TRUE, 30, FALSE), Connection("none", TRUE, 14, FALSE),
          Connection("none", TRUE, -1, TRUE), Connection("none", FALSE, 0, FALSE)}

\* the sites a redirect chain passes
SiteA == <<"h", "t", "t", "p", "s", ":", "/", "/", "a", ".", "e", "x", "a", "m", "p", "l", "e", ".", "c", "o", "m", "/">>

SiteB == <<"h", "t", "t", "p", "s", ":", "/", "/", "b", ".", "e", "x", "a", "m", "p", "l", "e", ".", "n", "e", "t", "/">>

SiteC == <<"h", "t", "t", "p", "s", ":", "/", "/", "c", ".", "e", "x", "a", "m", "p", "l", "e", ".", "o", "r", "g", "/">>

\* the same address over plain http
Plain(u) == HTTP_PREFIX \o From(u, Len(HTTPS_PREFIX) + 1)

\* the address of the i-th response after the first (i >= 1) of a chain with n
\* redirects: one site, three sites in turn, and either with a final hop
\* over plain http
HopUrl(pattern, i, n) ==
    LET site == IF pattern \in {"cross", "cross_downgrade"}
                THEN (CASE i % 3 = 1 -> SiteA [] i % 3 = 2 -> SiteB [] OTHER -> SiteC)
                ELSE SiteA
    IN  IF pattern \in {"downgrade", "cross_downgrade"} /\ i = n THEN Plain(site)
        ELSE site

Response(u, status) == [url |-> u, status_code |-> status]

\* session.get answered after n redirects (n <= max_redirects, or requests
\* raises TooManyRedirects): the first response is that of the requested url
Redirected(url, n, pattern) ==
    [exc     |-> "none",
     history |-> [i \in 1..n |-> Response(IF i = 1 THEN url ELSE HopUrl(pattern, i - 1, n), 302)],
     final   |-> Response(IF n = 0 THEN url ELSE HopUrl(pattern, n, n), 200)]

Failed(exc) == [exc |-> exc, history |-> <<>>, final |-> Response(<<>>, 0)]

RedirectCounts == {3, 6}

RedirectResponses(url) ==
         {Failed(e) : e \in {"requests.TooManyRedirects", "requests.SSLError",
                             "requests.ConnectionError", "requests.ConnectTimeout",
                             "requests.ReadTimeout", "requests.InvalidURL"}}
    \cup {Redirected(url, 0, "same"), Redirected(url, MAX_REDIRECTS, "same")}
    \cup {Redirected(url, n, p) :
             n \in RedirectCounts,
             p \in {"same", "cross", "downgrade", "cross_downgrade"}}

(***************************************************************************)
(* State                                                                   *)
(***************************************************************************)
VARIABLES
    pc,                \* where the running call stands
    caller,            \* who called scan_url: "direct" or "run_scan"
    raw_url,           \* the argument of scan_url
    url,               \* the normalised URL
    url_struct,        \* the five stage results of the running scan
    domain_info,
    ssl_info,
    blacklist,
    redirects,
    calls,             \* the analyzer stages invoked by the running scan, in order
    scan_data,         \* what scan_url returned; then what score_scan made of it
    WHOIS_AVAILABLE,   \* whether python-whois could be imported
    disk,              \* the model files
    trained,           \* whether the last score_scan ran train_model
    scan_result,       \* st.session_state.scan_result
    trigger_scan,      \* st.session_state.trigger_scan
    pending_scan_url,  \* st.session_state.pending_scan_url
    message,           \* what run_scan last reported to the user
    hybrid_args,       \* the arguments of a direct compute_hybrid_risk_score call
    hybrid_result,     \* and what it returned
    stage_args,        \* the arguments of a direct call of one analyzer stage
    stage_result       \* and what it returned

scanner_vars ==
    <<pc, caller, raw_url, url, url_struct, domain_info, ssl_info, blacklist,
      redirects, calls, scan_data>>

app_vars == <<disk, trained, scan_result, trigger_scan, pending_scan_url, message>>

hybrid_vars == <<hybrid_args, hybrid_result>>

stage_vars == <<stage_args, stage_result>>

vars == <<scanner_vars, WHOIS_AVAILABLE, app_vars, hybrid_vars, stage_vars>>

\* Python's None
None == [none |-> TRUE]

TrainedDisk == [model_file |-> TrainedModel, scaler_file |-> TrainedScaler, writable |-> TRUE]

InitScanner ==
    /\ pc = "idle"
    /\ caller = "none"
    /\ raw_url = <<>>
    /\ url = <<>>
    /\ url_struct = None
    /\ domain_info = None
    /\ ssl_info = None
    /\ blacklist = None
    /\ redirects = None
    /\ calls = <<>>
    /\ scan_data = None
    /\ WHOIS_AVAILABLE \in BOOLEAN

\* init_session's defaults
InitSession ==
    /\ scan_result = None
    /\ trigger_scan = FALSE
    /\ pending_scan_url = <<>>
    /\ message = "none"

InitHybridIdle ==
    /\ hybrid_args = None
    /\ hybrid_result = None

\* no analyzer stage is called on its own
InitStageIdle ==
    /\ stage_args = None
    /\ stage_result = None

(***************************************************************************)
(* scan_url, step by step                                                  *)
(***************************************************************************)
\* lines 556-564: normalise and validate; an invalid URL returns the error
\* record at once
EnterScanUrl(raw, who) ==
    /\ caller' = who
    /\ raw_url' = raw
    /\ url' = NormalizeUrl(raw)
    /\ url_struct' = None
    /\ domain_info' = None
    /\ ssl_info' = None
    /\ blacklist' = None
    /\ redirects' = None
    /\ calls' = <<>>
    /\ IF ValidUrl(url')
       THEN pc' = "url_struct" /\ scan_data' = None
       ELSE pc' = "returned" /\ scan_data' = ErrorRecord

\* a call of scan_url from outside the dashboard
ScanUrl ==
    /\ pc \in {"idle", "returned", "raised"}
    /\ \E raw \in UrlInputs : EnterScanUrl(raw, "direct")
    /\ UNCHANGED <<WHOIS_AVAILABLE, app_vars, hybrid_vars, stage_vars>>

\* an exception that leaves a stage leaves scan_url
StageDone(result, next) ==
    IF IsRaise(result)
    THEN pc' = "raised" /\ scan_data' = result
    ELSE pc' = next /\ scan_data' = scan_data

\* line 570
AnalyzeUrlStructure ==
    /\ pc = "url_struct"
    /\ url_struct' = analyze_url_structure(url)
    /\ calls' = Append(calls, "analyze_url_structure")
    /\ pc' = "domain_info"
    /\ UNCHANGED <<caller, raw_url, url, domain_info, ssl_info, blacklist, redirects,
                   scan_data, WHOIS_AVAILABLE, app_vars, hybrid_vars, stage_vars>>

\* line 571
AnalyzeDomain(lookups) ==
    /\ pc = "domain_info"
    /\ \E w \in lookups :
          domain_info' = analyze_domain(url, WHOIS_AVAILABLE, w) /\ StageDone(domain_info', "ssl_info")
    /\ calls' = Append(calls, "analyze_domain")
    /\ UNCHANGED <<caller, raw_url, url, url_struct, ssl_info, blacklist, redirects,
                   WHOIS_AVAILABLE, app_vars, hybrid_vars, stage_vars>>

\* the TLS stage started without waiting for the domain stage
AnalyzeSslEarly(connections) ==
    /\ pc \in {"domain_info", "ssl_info"}
    /\ \E c \in connections :
          ssl_info' = analyze_ssl(url, c) /\ StageDone(ssl_info', "blacklist")
    /\ calls' = Append(calls, "analyze_ssl")
    /\ UNCHANGED <<caller, raw_url, url, url_struct, domain_info, blacklist, redirects,
                   WHOIS_AVAILABLE, app_vars, hybrid_vars, stage_vars>>

\* line 572
AnalyzeSsl(connections) ==
    /\ pc = "ssl_info"
    /\ \E c \in connections :
          ssl_info' = analyze_ssl(url, c) /\ StageDone(ssl_info', "blacklist")
    /\ calls' = Append(calls, "analyze_ssl")
    /\ UNCHANGED <<caller, raw_url, url, url_struct, domain_info, blacklist, redirects,
                   WHOIS_AVAILABLE, app_vars, hybrid_vars, stage_vars>>

\* line 573
CheckBlacklist ==
    /\ pc = "blacklist"
    /\ blacklist' = check_blacklist(url)
    /\ calls' = Append(calls, "check_blacklist")
    /\ pc' = "redirects"
    /\ UNCHANGED <<caller, raw_url, url, url_struct, domain_info, ssl_info, redirects,
                   scan_data, WHOIS_AVAILABLE, app_vars, hybrid_vars, stage_vars>>

\* line 574
AnalyzeRedirects(responses) ==
    /\ pc = "redirects"
    /\ \E n \in responses :
          redirects' = analyze_redirects(url, n) /\ StageDone(redirects', "aggregate")
    /\ calls' = Append(calls, "analyze_redirects")
    /\ UNCHANGED <<caller, raw_url, url, url_struct, domain_info, ssl_info, blacklist,
                   WHOIS_AVAILABLE, app_vars, hybrid_vars, stage_vars>>

\* lines 576-642: aggregate and return
Aggregate ==
    /\ pc = "aggregate"
    /\ scan_data' = ScanData(url, url_struct, domain_info, ssl_info, blacklist, redirects)
    /\ pc' = "returned"
    /\ UNCHANGED <<caller, raw_url, url, url_struct, domain_info, ssl_info, blacklist,
                   redirects, calls, WHOIS_AVAILABLE, app_vars, hybrid_vars, stage_vars>>

(***************************************************************************)
(* The scanner on its own: scan_url called with any of the inputs, the     *)
(* network answering in any of the modelled ways.                          *)
(***************************************************************************)
Init ==
    /\ InitScanner
    /\ InitSession
    /\ InitHybridIdle
    /\ InitStageIdle
    /\ disk = TrainedDisk
    /\ trained = FALSE

Next ==
    \/ ScanUrl
    \/ AnalyzeUrlStructure
    \/ AnalyzeDomain(WhoisLookups)
    \/ AnalyzeSsl(TlsConnections)
    \/ CheckBlacklist
    \/ AnalyzeRedirects(RedirectResponses(url))
    \/ Aggregate

Spec == Init /\ [][Next]_vars

(***************************************************************************)
(* compute_hybrid_risk_score on its own: called once with any rule score   *)
(* in 0..100, an anomaly score of the grid 0, MlStep, 2*MlStep, .. and 100 *)
(* (in hundredths), and any combination of the two override flags.         *)
(***************************************************************************)
MlStep == 97

MlScores == {m \in 0..Points(100) : m % MlStep = 0} \cup {Points(100)}

\* the two features compute_hybrid_risk_score reads
OverrideFlags(is_blacklisted, has_ip_in_url) ==
    [is_blacklisted |-> is_blacklisted, has_ip_in_url |-> has_ip_in_url]

HybridArgs ==
    {[rule_score     |-> r,
      ml_score       |-> m,
      feature_vector |-> OverrideFlags(b, ip)] :
        r \in 0..100, m \in MlScores, b \in 0..1, ip \in 0..1}

InitHybrid ==
    /\ InitScanner
    /\ WHOIS_AVAILABLE = TRUE
    /\ InitSession
    /\ disk = TrainedDisk
    /\ trained = FALSE
    /\ hybrid_args \in HybridArgs
    /\ hybrid_result = None
    /\ InitStageIdle

ComputeHybrid ==
    /\ hybrid_result = None
    /\ hybrid_result' = compute_hybrid_risk_score(hybrid_args.rule_score,
                                                  hybrid_args.ml_score,
                                                  hybrid_args.feature_vector)
    /\ UNCHANGED <<scanner_vars, WHOIS_AVAILABLE, app_vars, hybrid_args, stage_vars>>

NextHybrid == ComputeHybrid

SpecHybrid == InitHybrid /\ [][NextHybrid]_vars

\* a call of compute_hybrid_risk_score has returned
HybridReturned == hybrid_result # None

\* C3: for every rule score in 0..100, every anomaly score in 0..100 and
\* every combination of the blacklist and IP-literal flags, the hybrid score
\* compute_hybrid_risk_score returns lies in 0..100.
C3_HybridInRange ==
    HybridReturned =>
        /\ hybrid_result.risk_score >= Points(0)
        /\ hybrid_result.risk_score <= Points(100)

\* the extremes are met: both scores 100 without a flag give exactly 100
C3_Witness ==
    /\ HybridReturned
    /\ hybrid_args.rule_score = 100
    /\ hybrid_args.ml_score = Points(100)
    /\ hybrid_args.feature_vector = OverrideFlags(0, 0)
    /\ hybrid_result.risk_score = Points(100)

\* C4: with the blacklist flag set the hybrid score is at least 80 and the
\* tier High Risk; with the IP-literal flag set it is at least 60 and the
\* tier Suspicious or High Risk; with both set it is at least 80; whatever
\* the rule score and the anomaly score, and in either order of the floors.
C4_HardFloors ==
    HybridReturned =>
        /\ hybrid_args.feature_vector.is_blacklisted = 1 =>
              /\ hybrid_result.risk_score >= Points(80)
              /\ hybrid_result.threat_level = "High Risk"
        /\ hybrid_args.feature_vector.has_ip_in_url = 1 =>
              /\ hybrid_result.risk_score >= Points(60)
              /\ hybrid_result.threat_level \in {"Suspicious", "High Risk"}
        /\ hybrid_result.risk_score =
              Max(Max(WeightedHybrid(hybrid_args.rule_score, hybrid_args.ml_score),
                      IF hybrid_args.feature_vector.has_ip_in_url = 1
                      THEN Points(60) ELSE 0),
                  IF hybrid_args.feature_vector.is_blacklisted = 1
                  THEN Points(80) ELSE 0)

\* both flags set on scores that weigh to 0: the floors lift the result to 80
C4_Witness ==
    /\ HybridReturned
    /\ hybrid_args.rule_score = 0
    /\ hybrid_args.ml_score = 0
    /\ hybrid_args.feature_vector = OverrideFlags(1, 1)
    /\ hybrid_result.risk_score = Points(80)
    /\ hybrid_result.threat_level = "High Risk"

\* C5: the tier is a step function of the final hybrid score: Safe exactly
\* when it is below 40, Suspicious exactly when it is at least 40 and below
\* 70, High Risk exactly when it is at least 70 (so that a higher score never
\* has a lower tier and equal scores have equal tiers).
C5_TierSteps ==
    HybridReturned =>
        /\ hybrid_result.threat_level = "Safe" <=>
              hybrid_result.risk_score < Points(40)
        /\ hybrid_result.threat_level = "Suspicious" <=>
              (hybrid_result.risk_score >= Points(40)
                  /\ hybrid_result.risk_score < Points(70))
        /\ hybrid_result.threat_level = "High Risk" <=>
              hybrid_result.risk_score >= Points(70)

\* the lower boundary, met exactly: 0.6 * 0 + 0.4 * 100 = 40.00 is Suspicious
C5_Witness ==
    /\ HybridReturned
    /\ hybrid_args.feature_vector = OverrideFlags(0, 0)
    /\ hybrid_result.risk_score = Points(40)
    /\ hybrid_result.threat_level = "Suspicious"

(***************************************************************************)
(* Properties of scan_url                                                  *)
(***************************************************************************)
\* scan_url has returned a Scan Result (not the error record)
ScanReturned == pc = "returned" /\ "error" \notin DOMAIN scan_data

StageNames == {"url_struct", "domain_info", "ssl_info", "blacklist", "redirects"}

AllStageCalls ==
    <<"analyze_url_structure", "analyze_domain", "analyze_ssl", "check_blacklist",
      "analyze_redirects">>

StageScoreWithin(result, cap) ==
    (result # None /\ ~IsRaise(result)) => result.rule_score \in 0..cap

\* C2: in every Scan Result the rule score lies in 0..100, and every stage's
\* score lies within its cap (lexical 50, domain age 25, TLS 20, blacklist 40,
\* redirect 20) for every outcome of the stage.
C2_ScoresWithinCaps ==
    /\ StageScoreWithin(url_struct, 50)
    /\ StageScoreWithin(domain_info, 25)
    /\ StageScoreWithin(ssl_info, 20)
    /\ StageScoreWithin(blacklist, 40)
    /\ StageScoreWithin(redirects, 20)
    /\ ScanReturned =>
          /\ scan_data.rule_score \in 0..100
          /\ StageScoreWithin(scan_data.url_struct, 50)
          /\ StageScoreWithin(scan_data.domain_info, 25)
          /\ StageScoreWithin(scan_data.ssl_info, 20)
          /\ StageScoreWithin(scan_data.blacklist, 40)
          /\ StageScoreWithin(scan_data.redirects, 20)

\* the caps at work: lexical rules worth more than 50, redirect rules worth
\* more than 20, and five stage scores that add up to more than 100
C2_Witness ==
    /\ ScanReturned
    /\ SumDeltas(scan_data.url_struct.rules_triggered) > 50
    /\ scan_data.url_struct.rule_score = 50
    /\ SumDeltas(scan_data.redirects.rules_triggered) > 20
    /\ scan_data.redirects.rule_score = 20
    /\ scan_data.blacklist.rule_score = 40
    /\ scan_data.rule_score = 100

\* the value of each feature of the schema, taken from the stage results
StageFeatures(us, di, si, bl, rd) ==
    <<us.url_length, us.num_subdomains, AsInt(si.has_https), di.domain_age_days,
      rd.redirect_count, AsInt(bl.is_blacklisted), AsInt(us.has_ip_in_url),
      us.suspicious_patterns, AsInt(si.has_valid_ssl), us.special_char_count,
      us.num_hyphens, us.path_depth, us.pct_encoded_count, AsInt(us.has_at_symbol),
      AsInt(us.is_url_shortener)>>

\* C6: every Scan Result's feature vector has exactly the 15 named features,
\* and the value the scorer reads at position i is the value scan_url stored
\* under the i-th name of FEATURE_NAMES, whichever stages failed.
C6_FeatureOrder ==
    ScanReturned =>
        /\ Len(FEATURE_NAMES) = 15
        /\ DOMAIN scan_data.feature_vector =
              {FEATURE_NAMES[i] : i \in 1..Len(FEATURE_NAMES)}
        /\ Cardinality(DOMAIN scan_data.feature_vector) = 15
        /\ \A i \in 1..Len(FEATURE_NAMES) :
              extract_feature_array(scan_data.feature_vector)[i] =
                  scan_data.feature_vector[FEATURE_NAMES[i]]
        /\ extract_feature_array(scan_data.feature_vector) =
              StageFeatures(scan_data.url_struct, scan_data.domain_info,
                            scan_data.ssl_info, scan_data.blacklist,
                            scan_data.redirects)

\* a scan in which the WHOIS, TLS and redirect stages all failed, on a URL
\* with hyphens, a path and a blacklisted domain
C6_Witness ==
    /\ ScanReturned
    /\ raw_url = U_obfuscated
    /\ scan_data.domain_info.rules_triggered = <<Rule("WHOIS lookup failed", 5)>>
    /\ scan_data.redirects.rules_triggered = <<Rule("Redirect loop detected", 18)>>
    /\ extract_feature_array(scan_data.feature_vector)[4] = -1
    /\ extract_feature_array(scan_data.feature_vector)[5] = MAX_REDIRECTS
    /\ extract_feature_array(scan_data.feature_vector)[6] = 1
    /\ extract_feature_array(scan_data.feature_vector)[11] = 2
    /\ extract_feature_array(scan_data.feature_vector)[14] = 1

\* C8: once the URL has passed validation, scan_url returns a complete Scan
\* Result with all five stage results: no failure of a stage leaves scan_url
\* as an exception or an error, and no stage result is missing.
C8_StagesNeverAbort ==
    /\ pc # "raised"
    /\ (pc = "returned" /\ ValidUrl(url)) =>
          /\ "error" \notin DOMAIN scan_data
          /\ StageNames \subseteq DOMAIN scan_data
          /\ \A s \in StageNames :
                {"rule_score", "rules_triggered"} \subseteq DOMAIN scan_data[s]
          /\ calls = AllStageCalls

\* WHOIS raised, the TLS connection timed out and the redirect request timed
\* out, and the scan returned all the same
C8_Witness ==
    /\ ScanReturned
    /\ scan_data.domain_info.rules_triggered = <<Rule("WHOIS lookup failed", 5)>>
    /\ scan_data.ssl_info.rules_triggered =
          <<Rule("Could not connect to host for SSL check", 8)>>
    /\ scan_data.redirects.rules_triggered =
          <<Rule("Could not connect to host for redirect analysis", 5)>>
    /\ scan_data.rule_score = 18

(***************************************************************************)
(* The dashboard (app.py): the scanner page's handlers around run_scan.    *)
(* The network answers each stage in one of a few ways; the model files    *)
(* change on disk between scans.                                           *)
(***************************************************************************)
\* the "url" fields of QUICK_EXAMPLES
QUICK_EXAMPLES == <<U_google, U_new_domain, U_ip, U_phishing>>

\* what the user types into the URL field
TypedInputs == {U_blank, U_padded, U_no_host, U_blacklisted}

AppWhoisLookups ==
    {Lookup("whois.PywhoisError", FALSE, FALSE, 0), Lookup("none", FALSE, TRUE, 400)}

AppTlsConnections ==
    {Connection("ssl.SSLCertVerificationError", FALSE, 0, FALSE),
     Connection("none", TRUE, 90, FALSE)}

AppRedirectResponses(u) == {Failed("requests.ConnectTimeout"), Redirected(u, 0, "same")}

\* what score_samples returns, in units of 0.00001
RawScores == {-65000, 5000}

\* a model pickled by a version with one feature less
StaleModel == ParamsFile(Len(FEATURE_NAMES) - 1, FittedOffset)

Disk(model_file, scaler_file, writable) ==
    [model_file |-> model_file, scaler_file |-> scaler_file, writable |-> writable]

\* the states of the model directory
DiskStates ==
    {Disk(TrainedModel, TrainedScaler, TRUE),
     Disk(TrainedModel, TrainedScaler, FALSE),
     Disk(AbsentFile, AbsentFile, TRUE),
     Disk(AbsentFile, AbsentFile, FALSE),
     Disk(CorruptFile, TrainedScaler, TRUE),
     Disk(CorruptFile, TrainedScaler, FALSE),
     Disk(TrainedModel, AbsentFile, TRUE),
     Disk(StaleModel, TrainedScaler, TRUE)}

\* init_app and init_session: load_model has run once, and returned
InitApp ==
    /\ InitScanner
    /\ InitSession
    /\ InitHybridIdle
    /\ InitStageIdle
    /\ \E d \in DiskStates :
          ~IsRaise(load_model(d)) /\ disk = load_model(d).disk
    /\ trained = FALSE

\* run_scan without line 481: the stored result is kept while the scan runs
RunScanKeeping(u) ==
    /\ scan_result' = scan_result
    /\ IF Strip(u, Whitespace) = <<>>
       THEN message' = "enter_url" /\ UNCHANGED scanner_vars
       ELSE message' = "scanning" /\ EnterScanUrl(u, "run_scan")

\* run_scan up to its call of scan_url, and scan_url up to its first stage
RunScan(u) ==
    /\ scan_result' = None
    /\ IF Strip(u, Whitespace) = <<>>
       THEN message' = "enter_url" /\ UNCHANGED scanner_vars
       ELSE message' = "scanning" /\ EnterScanUrl(u, "run_scan")

\* an example button is clicked; the script reruns and auto-scans the example
ExampleClick ==
    /\ pc = "idle"
    /\ \E i \in 1..Len(QUICK_EXAMPLES) :
          /\ pending_scan_url' = QUICK_EXAMPLES[i]
          /\ trigger_scan' = TRUE
          /\ RunScan(QUICK_EXAMPLES[i])
    /\ UNCHANGED <<WHOIS_AVAILABLE, disk, trained, hybrid_vars, stage_vars>>

\* the Scan button is clicked with url_typed in the field: the auto-scan
\* test comes first
ScanClick ==
    /\ pc = "idle"
    /\ \E url_typed \in TypedInputs :
          IF trigger_scan /\ pending_scan_url # <<>>
          THEN RunScan(pending_scan_url)
          ELSE IF Strip(url_typed, Whitespace) = <<>>
          THEN message' = "enter_url_first" /\ UNCHANGED <<scan_result, scanner_vars>>
          ELSE RunScan(Strip(url_typed, Whitespace))
    /\ UNCHANGED <<WHOIS_AVAILABLE, disk, trained, trigger_scan, pending_scan_url,
                   hybrid_vars, stage_vars>>

\* any other rerun of the script while the trigger is set
Rerun ==
    /\ pc = "idle"
    /\ trigger_scan /\ pending_scan_url # <<>>
    /\ RunScan(pending_scan_url)
    /\ UNCHANGED <<WHOIS_AVAILABLE, disk, trained, trigger_scan, pending_scan_url,
                   hybrid_vars, stage_vars>>

\* lines 532-541: the keys run_scan adds (insights and verdict are display
\* texts made from the values already there)
WithReport(data) == Update(data, [triggered_rules |-> Get(data, "all_rules", <<>>)])

\* lines 524-564, given what score_scan did
FinishScan(scored) ==
    /\ disk' = scored.disk
    /\ trained' = scored.trained
    /\ IF IsRaise(scored)
       THEN /\ message' = "scan_error"
            /\ UNCHANGED <<scan_data, scan_result, trigger_scan, pending_scan_url>>
       ELSE /\ scan_data' = WithReport(scored.scan_data)
            /\ scan_result' = scan_data'
            /\ trigger_scan' = FALSE
            /\ pending_scan_url' = <<>>
            /\ message' = "complete"

\* run_scan from the return of scan_url to its end
RunScanFinish ==
    /\ pc \in {"returned", "raised"}
    /\ caller = "run_scan"
    /\ pc' = "idle"
    /\ IF pc = "raised"
       THEN /\ message' = "scan_error"
            /\ UNCHANGED <<scan_data, disk, trained, scan_result, trigger_scan,
                           pending_scan_url>>
       ELSE IF "error" \in DOMAIN scan_data
       THEN /\ message' = "invalid_url"
            /\ UNCHANGED <<scan_data, disk, trained, scan_result, trigger_scan,
                           pending_scan_url>>
       ELSE \E raw_score \in RawScores : FinishScan(score_scan(scan_data, disk, raw_score))
    /\ UNCHANGED <<caller, raw_url, url, url_struct, domain_info, ssl_info, blacklist,
                   redirects, calls, WHOIS_AVAILABLE, hybrid_vars, stage_vars>>

\* the model files are replaced, removed or damaged between two scans
DiskChange ==
    /\ pc = "idle"
    /\ disk' \in DiskStates \ {disk}
    /\ UNCHANGED <<scanner_vars, WHOIS_AVAILABLE, trained, scan_result, trigger_scan,
                   pending_scan_url, message, hybrid_vars, stage_vars>>

NextApp ==
    \/ ExampleClick
    \/ ScanClick
    \/ Rerun
    \/ AnalyzeUrlStructure
    \/ AnalyzeDomain(AppWhoisLookups)
    \/ AnalyzeSsl(AppTlsConnections)
    \/ CheckBlacklist
    \/ AnalyzeRedirects(AppRedirectResponses(url))
    \/ Aggregate
    \/ RunScanFinish
    \/ DiskChange

SpecApp == InitApp /\ [][NextApp]_vars

(***************************************************************************)
(* Properties of run_scan and score_scan                                   *)
(***************************************************************************)
\* the step in which run_scan calls score_scan and runs to its end
ScoringStep ==
    /\ pc = "returned"
    /\ caller = "run_scan"
    /\ "error" \notin DOMAIN scan_data
    /\ pc' = "idle"

\* both files exist and unpickle
Loadable(d) == d.model_file.kind = "params" /\ d.scaler_file.kind = "params"

\* a file exists and pickle.load raises on it
CorruptParams(d) == d.model_file.kind = "corrupt" \/ d.scaler_file.kind = "corrupt"

\* the loaded parameters were fitted on another number of features
ShapeMismatch(d) ==
    /\ Loadable(d)
    /\ \/ d.model_file.n_features_in # Len(FEATURE_NAMES)
       \/ d.scaler_file.n_features_in # Len(FEATURE_NAMES)

\* the scan ended in run_scan's except clause, with nothing to show
ScanFailed(msg, result, data) ==
    /\ msg = "scan_error"
    /\ result = None
    /\ {"risk_score", "threat_level"} \cap DOMAIN data = {}

\* C9 as claimed: a model-inference error (corrupt or unloadable parameters,
\* or a shape mismatch) is fatal to the scan: the caller gets a pipeline error
\* and neither hybrid score nor tier.
C9_AsClaimed ==
    [][(ScoringStep /\ (CorruptParams(disk) \/ ShapeMismatch(disk)))
          => ScanFailed(message', scan_result', scan_data')]_vars

\* C9: an exception raised inside score_scan (a shape mismatch of loaded
\* parameters, or parameters that can be neither loaded nor trained and
\* written anew) is fatal to the scan: run_scan reports the error and stores
\* no result, hybrid score or tier.  In every other case, corrupt or missing
\* files included, the scan completes with a hybrid score and a tier.
C9_InferenceErrorFatal ==
    [][ScoringStep =>
          IF ShapeMismatch(disk) \/ (~Loadable(disk) /\ ~disk.writable)
          THEN ScanFailed(message', scan_result', scan_data')
          ELSE /\ message' = "complete"
               /\ scan_result' = scan_data'
               /\ {"risk_score", "threat_level"} \subseteq DOMAIN scan_result']_vars

\* a scan that ended in the except clause on a model of 14 features
C9_Witness ==
    /\ pc = "idle"
    /\ caller = "run_scan"
    /\ calls = AllStageCalls
    /\ disk.model_file = StaleModel
    /\ ScanFailed(message, scan_result, scan_data)

\* C10 as claimed: no scan ever trains a model or writes the model and scaler
\* files, whatever the state of the files.
C10_AsClaimed ==
    [][ScoringStep => (~trained' /\ disk' = disk)]_vars

\* C10: a scan whose model and scaler files both exist and load only loads
\* them: it neither trains nor writes.  A scan that finds a file missing or
\* not loadable trains a fresh model and, the directory permitting, writes
\* both files.
C10_TrainsOnlyWhenNotLoadable ==
    [][ScoringStep =>
          /\ trained' = ~Loadable(disk)
          /\ disk' = IF ~Loadable(disk) /\ disk.writable
                     THEN Disk(TrainedModel, TrainedScaler, TRUE)
                     ELSE disk]_vars

\* a scan that found the files missing, trained, wrote them and completed
C10_Witness ==
    /\ pc = "idle"
    /\ caller = "run_scan"
    /\ trained
    /\ message = "complete"
    /\ scan_result # None
    /\ disk = Disk(TrainedModel, TrainedScaler, TRUE)


(***************************************************************************)
(* The record between scan_url and the session (ml_model.py 267-287,       *)
(* app.py 524-541).  scan_data is the one dict scan_url returned: score_scan*)
(* and run_scan write into that object, so scan_data' is the same record   *)
(* after they ran.                                                         *)
(***************************************************************************)
\* the keys score_scan and run_scan write into the record
ScoringKeys ==
    {"ml_anomaly_score", "is_anomaly", "raw_if_score", "if_decision",
     "anomaly_confidence", "risk_score", "threat_level", "ml_score", "rule_weight",
     "ml_weight", "triggered_rules"}

C12_NoStaleResult ==
    /\ pc # "idle" => scan_result = None
    /\ message \in {"enter_url", "invalid_url", "scan_error"} => scan_result = None
    /\ scan_result # None =>
          /\ scan_result = scan_data
          /\ scan_result.url = NormalizeUrl(raw_url)

\* a scan in progress after an earlier one went through scoring: the earlier
\* result is gone
C12_Witness ==
    /\ pc = "redirects"
    /\ caller = "run_scan"
    /\ trained
    /\ disk = Disk(TrainedModel, TrainedScaler, TRUE)
    /\ scan_result = None

(***************************************************************************)
(* The order of the stages inside scan_url (scanner.py 569-574).           *)
(***************************************************************************)
\* scan_url is between its first and its last stage call
StagesRunning == pc \in {"domain_info", "ssl_info", "blacklist", "redirects"}

\* C14 as claimed: the four network-bound stages run concurrently: while the
\* stages run, the TLS, blacklist and redirect stage can each start without
\* waiting for the stage called before it to finish.
C14_AsClaimed ==
    StagesRunning =>
       /\ ssl_info = None => ENABLED AnalyzeSsl(TlsConnections)
       /\ blacklist = None => ENABLED CheckBlacklist
       /\ redirects = None => ENABLED AnalyzeRedirects(RedirectResponses(url))

\* C14: the stages run one after another in the fixed order lexical, domain
\* age, TLS, blacklist, redirect: a stage starts only when the stage before
\* it has returned, so at any moment the stages that ran are a prefix of that
\* order and the others have no result yet.
C14_StagesSequential ==
    /\ Len(calls) <= Len(AllStageCalls)
    /\ calls = SubSeq(AllStageCalls, 1, Len(calls))
    /\ (url_struct # None) = (Len(calls) >= 1)
    /\ (domain_info # None) = (Len(calls) >= 2)
    /\ (ssl_info # None) = (Len(calls) >= 3)
    /\ (blacklist # None) = (Len(calls) >= 4)
    /\ (redirects # None) = (Len(calls) >= 5)
    /\ pc = "domain_info" => Len(calls) = 1
    /\ pc = "ssl_info" => Len(calls) = 2
    /\ pc = "blacklist" => Len(calls) = 3
    /\ pc = "redirects" => Len(calls) = 4

\* the domain stage has returned a lookup failure and the TLS stage, the
\* blacklist stage and the redirect stage have not started
C14_Witness ==
    /\ pc = "ssl_info"
    /\ calls = <<"analyze_url_structure", "analyze_domain">>
    /\ domain_info.rule_score = 5
    /\ ssl_info = None
    /\ blacklist = None
    /\ redirects = None

(***************************************************************************)
(* Normalisation of the input (scanner.py 556-559).                        *)
(***************************************************************************)
\* the text starts with a scheme, in any letter case, followed by "://"
CarriesScheme(text) == HasScheme(text) /\ HasNetloc(text)

\* C15: the URL scan_url works on is the input stripped of surrounding
\* whitespace, with "https://" put in front exactly when the input carries
\* no scheme; an input with a scheme, in any letter case, is otherwise left
\* as it is.
C15_PrefixOnlyWithoutScheme ==
    pc # "idle" =>
       url = IF CarriesScheme(Strip(raw_url, Whitespace))
             THEN Strip(raw_url, Whitespace)
             ELSE HTTPS_PREFIX \o Strip(raw_url, Whitespace)

(***************************************************************************)
(* The aggregate fields of the record (scanner.py 576-593).                *)
(***************************************************************************)
\* the five stage scores stored in a record, added up
StoredStageSum(data) ==
    data.url_struct.rule_score + data.domain_info.rule_score + data.ssl_info.rule_score
        + data.blacklist.rule_score + data.redirects.rule_score

\* C16: the rule score of a Scan Result is the smaller of 100 and the sum of
\* the five stage scores stored in the same record.
C16_RuleScoreIsCappedSum ==
    ScanReturned =>
        scan_data.rule_score =
            IF StoredStageSum(scan_data) > 100 THEN 100 ELSE StoredStageSum(scan_data)

\* a record whose five stages all scored and whose scores add up to more
\* than 100
C16_Witness ==
    /\ ScanReturned
    /\ scan_data.url_struct.rule_score > 0
    /\ scan_data.domain_info.rule_score > 0
    /\ scan_data.ssl_info.rule_score > 0
    /\ scan_data.blacklist.rule_score > 0
    /\ scan_data.redirects.rule_score > 0
    /\ StoredStageSum(scan_data) > 100
    /\ scan_data.rule_score = 100

\* the part of a list from position first, n entries long
Slice(list, first, n) == SubSeq(list, first, first + n - 1)

\* C17: the triggered-rules list of a Scan Result is the five stages' rule
\* lists one after another, in the order lexical, domain age, TLS, blacklist,
\* redirect, each stage's rules in the order the stage gave them and each
\* rule once.
C17_RulesConcatenated ==
    ScanReturned =>
        LET n1 == Len(scan_data.url_struct.rules_triggered)
            n2 == Len(scan_data.domain_info.rules_triggered)
            n3 == Len(scan_data.ssl_info.rules_triggered)
            n4 == Len(scan_data.blacklist.rules_triggered)
            n5 == Len(scan_data.redirects.rules_triggered)
        IN  /\ Len(scan_data.all_rules) = n1 + n2 + n3 + n4 + n5
            /\ Slice(scan_data.all_rules, 1, n1) = scan_data.url_struct.rules_triggered
            /\ Slice(scan_data.all_rules, n1 + 1, n2) = scan_data.domain_info.rules_triggered
            /\ Slice(scan_data.all_rules, n1 + n2 + 1, n3) = scan_data.ssl_info.rules_triggered
            /\ Slice(scan_data.all_rules, n1 + n2 + n3 + 1, n4) =
                  scan_data.blacklist.rules_triggered
            /\ Slice(scan_data.all_rules, n1 + n2 + n3 + n4 + 1, n5) =
                  scan_data.redirects.rules_triggered

\* a record in which every stage triggered a rule, the lexical stage and the
\* redirect stage more than one
C17_Witness ==
    /\ ScanReturned
    /\ Len(scan_data.url_struct.rules_triggered) > 1
    /\ Len(scan_data.domain_info.rules_triggered) = 1
    /\ Len(scan_data.ssl_info.rules_triggered) > 0
    /\ Len(scan_data.blacklist.rules_triggered) > 0
    /\ Len(scan_data.redirects.rules_triggered) > 1
    /\ Len(scan_data.all_rules) > 5

(***************************************************************************)
(* The analyzer stages called on their own: analyze_domain, analyze_ssl    *)
(* and check_blacklist are module-level functions of scanner.py, applied   *)
(* here to one URL and one answer of the network, with the ages and the    *)
(* days left on both sides of every threshold of the rules.                *)
(***************************************************************************)
StageUrls ==
    {U_google, U_new_domain, U_ip, U_phishing, U_blacklisted, U_port_only,
     U_obfuscated, U_ftp}

\* (now - creation).days for creation dates from the future to long ago
StageAges == {-2, -1, 0, 29, 30, 179, 180, 364, 365, 5000}

StageLookups ==
         {Lookup(e, FALSE, FALSE, 0) :
             e \in {"whois.PywhoisError", "socket.timeout", "ConnectionResetError"}}
    \cup {Lookup("IndexError", TRUE, TRUE, 100)}
    \cup {Lookup("none", FALSE, FALSE, 0)}
    \cup {Lookup("none", FALSE, TRUE, a) : a \in StageAges}

\* (expire_dt - utcnow()).days
StageDaysLeft == {-1, 0, 14, 15, 29, 30, 400}

StageConnections ==
         {Connection(e, FALSE, 0, FALSE) :
             e \in {"ssl.SSLError", "ssl.SSLCertVerificationError", "socket.timeout",
                    "socket.gaierror", "ConnectionRefusedError", "ConnectionResetError",
                    "ValueError"}}
    \cup {Connection("none", TRUE, d, s) : d \in StageDaysLeft, s \in BOOLEAN}
    \cup {Connection("none", FALSE, 0, s) : s \in BOOLEAN}

\* the longest chain of redirects a remote sends before it answers
MaxRemoteHops == 12

StageHopCounts == (0..6) \cup (MAX_REDIRECTS..MaxRemoteHops)

\* the address of the i-th response after the first: the requested URL again,
\* one site over http and https in turn, two sites in turn (the last hop over
\* http or not), or a pattern of HopUrl
StageHopUrl(u, pattern, i, n) ==
    IF pattern = "self" THEN u
    ELSE IF pattern = "alternate" THEN (IF i % 2 = 1 THEN Plain(SiteA) ELSE SiteA)
    ELSE IF pattern = "two" THEN (IF i % 2 = 1 THEN SiteA ELSE SiteB)
    ELSE IF pattern = "two_downgrade"
    THEN (IF i = n THEN Plain(SiteB) ELSE IF i % 2 = 1 THEN SiteA ELSE SiteB)
    ELSE HopUrl(pattern, i, n)

\* what the remote does when every redirect it sends is followed
RemoteChain(u, n, pattern) ==
    [exc     |-> "none",
     history |-> [i \in 1..n |->
                     Response(IF i = 1 THEN u ELSE StageHopUrl(u, pattern, i - 1, n), 302)],
     final   |-> Response(IF n = 0 THEN u ELSE StageHopUrl(u, pattern, n, n), 200)]

StageRemotes(u) ==
         {Failed(e) : e \in {"requests.TooManyRedirects", "requests.SSLError",
                             "requests.ConnectionError", "requests.ConnectTimeout",
                             "requests.ReadTimeout", "requests.InvalidURL",
                             "ValueError"}}
    \cup {RemoteChain(u, n, p) :
             n \in StageHopCounts,
             p \in {"self", "same", "two", "two_downgrade", "cross", "downgrade",
                    "cross_downgrade", "alternate"}}

StageCall(fn, u, available, w, c) ==
    [fn |-> fn, url |-> u, whois_available |-> available, w |-> w, c |-> c,
     remote |-> Redirected(<<>>, 0, "same"), raw_score |-> 0]

\* the arguments a call does not take
NoLookup == Lookup("none", FALSE, FALSE, 0)

NoConnection == Connection("none", FALSE, 0, FALSE)

\* a path of n characters
PathOf(n) == <<"/">> \o [i \in 1..(n - 1) |-> IF i % 9 = 0 THEN "/" ELSE "a"]

\* the URL made n characters long by a path
Lengthened(u, n) == u \o PathOf(n - Len(u))

\* URL lengths on both sides of every step of the length rule
StageLengths == {75, 76, 84, 85, 94, 95, 124, 125, 134, 135, 160}

U_double_encoded ==
    U_google \o <<"/", "%", "2", "5", "4", "1", "%", "2", "5", "2", "0", "%", "4", "1">>

\* a fourth hyphen
U_hyphenated == U_phishing \o <<"-", "x">>

StageLexicalUrls ==
         {NormalizeUrl(raw) : raw \in UrlInputs}
    \cup {U_double_encoded, U_hyphenated}
    \cup {Lengthened(u, n) : u \in {U_google, U_ip, U_phishing, U_subdomains},
                             n \in StageLengths}

\* the distance between two raw scores of the sweep
RawStep == 997

\* what score_samples returns, in units of 0.00001: a sweep from -1.0 to 0.4
\* and the values on both sides of the two ends of the reference range and of
\* the two thresholds of the margin
StageRawScores ==
         {r \in -100000..40000 : r % RawStep = 0}
    \cup {SCORE_MIN - 1, SCORE_MIN, SCORE_MIN + 1, SCORE_MAX - 1, SCORE_MAX, SCORE_MAX + 1}
    \cup {FittedOffset - 15001, FittedOffset - 15000, FittedOffset - 14999,
          FittedOffset - 1, FittedOffset, FittedOffset + 1}

StageCalls ==
         {StageCall("analyze_domain", u, a, w, NoConnection) :
             u \in StageUrls, a \in BOOLEAN, w \in StageLookups}
    \cup {StageCall("analyze_ssl", u, TRUE, NoLookup, c) :
             u \in StageUrls, c \in StageConnections}
    \cup {StageCall("check_blacklist", u, TRUE, NoLookup, NoConnection) :
             u \in {NormalizeUrl(raw) : raw \in UrlInputs}}
    \cup {StageCall("analyze_url_structure", u, TRUE, NoLookup, NoConnection) :
             u \in StageLexicalUrls}
    \cup {[StageCall("compute_ml_anomaly_score", u, TRUE, NoLookup, NoConnection)
              EXCEPT !.raw_score = r] : u \in {U_google, U_ip}, r \in StageRawScores}
    \cup UNION {{[StageCall("analyze_redirects", u, TRUE, NoLookup, NoConnection)
                     EXCEPT !.remote = r] : r \in StageRemotes(u)} :
                 u \in {U_google, U_new_domain}}

InitStage ==
    /\ InitScanner
    /\ InitSession
    /\ InitHybridIdle
    /\ disk = TrainedDisk
    /\ trained = FALSE
    /\ stage_args \in StageCalls
    /\ WHOIS_AVAILABLE = stage_args.whois_available
    /\ stage_result = None

StageCalled(fn) ==
    /\ stage_result = None
    /\ stage_args.fn = fn
    /\ UNCHANGED <<scanner_vars, WHOIS_AVAILABLE, app_vars, hybrid_vars, stage_args>>

CallAnalyzeUrlStructure ==
    /\ StageCalled("analyze_url_structure")
    /\ stage_result' = analyze_url_structure(stage_args.url)

CallAnalyzeDomain ==
    /\ StageCalled("analyze_domain")
    /\ stage_result' = analyze_domain(stage_args.url, WHOIS_AVAILABLE, stage_args.w)

CallAnalyzeSsl ==
    /\ StageCalled("analyze_ssl")
    /\ stage_result' = analyze_ssl(stage_args.url, stage_args.c)

CallCheckBlacklist ==
    /\ StageCalled("check_blacklist")
    /\ stage_result' = check_blacklist(stage_args.url)

CallAnalyzeRedirects ==
    /\ StageCalled("analyze_redirects")
    /\ stage_result' = analyze_redirects(stage_args.url,
                                         SessionGet(MAX_REDIRECTS, stage_args.remote))

\* the scorer on the features of the URL's lexical stage, the other features
\* at their default
CallComputeMlAnomalyScore ==
    /\ StageCalled("compute_ml_anomaly_score")
    /\ stage_result' = compute_ml_anomaly_score(analyze_url_structure(stage_args.url),
                                                TrainedModel, TrainedScaler,
                                                stage_args.raw_score)

NextStage ==
    \/ CallComputeMlAnomalyScore
    \/ CallAnalyzeUrlStructure
    \/ CallAnalyzeDomain
    \/ CallAnalyzeSsl
    \/ CallCheckBlacklist
    \/ CallAnalyzeRedirects

SpecStage == InitStage /\ [][NextStage]_vars

\* the call of fn has returned
StageReturned(fn) == stage_args # None /\ stage_args.fn = fn /\ stage_result # None

\* the age a lookup gives: -1 when the record carries no creation date
LookupAge(w) == IF w.has_creation THEN w.age ELSE -1

\* the score of a successful lookup, as the policy states it
AgeScore(age) ==
    IF age = -1 THEN 10
    ELSE IF age < 30 THEN 20
    ELSE IF age < 180 THEN 12
    ELSE IF age < 365 THEN 5
    ELSE 0

\* C18: the domain-age stage ends in exactly one of four outcomes.  An
\* allow-listed domain gets age 5000 and score 0 whatever the lookup would
\* have answered; with the lookup mechanism unavailable the score is 8; a
\* lookup that fails scores 5; a lookup that succeeds scores 10 for the
\* unknown age -1 and otherwise 20 below 30 days, 12 below 180, 5 below 365 and
\* 0 from 365 on.
C18_DomainOutcomes ==
    StageReturned("analyze_domain") =>
        /\ ~IsRaise(stage_result)
        /\ Len(stage_result.rules_triggered) = IF stage_result.rule_score = 0 THEN 0 ELSE 1
        /\ IF Registered(stage_args.url) \in BENIGN_DOMAINS
           THEN /\ stage_result.domain_age_days = 5000
                /\ stage_result.rule_score = 0
                /\ stage_result.creation_date = "None"
                /\ ~stage_result.is_newly_registered
           ELSE IF ~stage_args.whois_available
           THEN /\ stage_result.rule_score = 8
                /\ stage_result.domain_age_days = -1
           ELSE IF stage_args.w.exc # "none"
           THEN stage_result.rule_score = 5
           ELSE /\ stage_result.domain_age_days = LookupAge(stage_args.w)
                /\ stage_result.rule_score = AgeScore(LookupAge(stage_args.w))

\* a lookup that succeeded on a domain registered 29 days ago
C18_Witness ==
    /\ StageReturned("analyze_domain")
    /\ stage_args.url = U_new_domain
    /\ stage_args.whois_available
    /\ stage_args.w = Lookup("none", FALSE, TRUE, 29)
    /\ stage_result.domain_age_days = 29
    /\ stage_result.rule_score = 20

\* the penalty for the expiry of a certificate, as the policy states it
ExpiryPenalty(c) ==
    IF ~c.has_not_after THEN 0
    ELSE IF c.days_left < 0 THEN 18
    ELSE IF c.days_left < 15 THEN 10
    ELSE IF c.days_left < 30 THEN 5
    ELSE 0

\* the score of each outcome of the connection, as the policy states it
ConnectionOutcomeScore(c) ==
    IF c.exc = "none"
    THEN Min(20, (IF c.self_signed THEN 15 ELSE 0) + ExpiryPenalty(c))
    ELSE IF c.exc \in {"ssl.SSLError", "ssl.SSLCertVerificationError"} THEN 18
    ELSE IF c.exc \in {"socket.timeout", "socket.gaierror", "ConnectionRefusedError"}
    THEN 8
    ELSE 5

\* C19 as claimed: a URL that is not https scores exactly 20 with no
\* connection attempted; for every https URL exactly one outcome of the
\* connection applies and gives the score: validation failure 18, connection
\* failure 8, unexpected error 5, or success with the capped certificate
\* score.
C19_AsClaimed ==
    StageReturned("analyze_ssl") =>
        IF UrlScheme(stage_args.url) # HTTPS
        THEN stage_result.rule_score = 20 /\ ~stage_result.has_valid_ssl
        ELSE stage_result.rule_score = ConnectionOutcomeScore(stage_args.c)

\* C19: a URL that is not https scores exactly 20 and an https URL without
\* a hostname scores exactly 5, both with no connection attempted.  For every
\* other URL exactly one outcome of the connection applies: validation
\* failure 18, connection failure (timeout, refused, DNS) 8, unexpected error
\* 5, or success with min(20, 15 if self-signed + 18 if expired, else 10 below
\* 15 days left, else 5 below 30).
C19_TlsOutcomes ==
    StageReturned("analyze_ssl") =>
        /\ ~IsRaise(stage_result)
        /\ Len(stage_result.rules_triggered) <= 2
        /\ stage_result.has_valid_ssl =
              /\ UrlScheme(stage_args.url) = HTTPS
              /\ UrlHostname(stage_args.url) # <<>>
              /\ stage_args.c.exc = "none"
        /\ IF UrlScheme(stage_args.url) # HTTPS
           THEN stage_result.rule_score = 20
           ELSE IF UrlHostname(stage_args.url) = <<>>
           THEN stage_result.rule_score = 5
           ELSE stage_result.rule_score = ConnectionOutcomeScore(stage_args.c)

\* a handshake that succeeded on a self-signed certificate with 14 days left:
\* 15 + 10, capped at 20
C19_Witness ==
    /\ StageReturned("analyze_ssl")
    /\ UrlHostname(stage_args.url) # <<>>
    /\ stage_args.c = Connection("none", TRUE, 14, TRUE)
    /\ stage_result.has_valid_ssl
    /\ stage_result.is_self_signed
    /\ Len(stage_result.rules_triggered) = 2
    /\ stage_result.rule_score = 20

\* the sources that list the registrable domain of a URL, in the order the
\* stage asks them
MatchingSources(registered) ==
       (IF registered \in BLACKLISTED_DOMAINS_SAMPLE
        THEN <<"Local Threat Database">> ELSE <<>>)
    \o (IF Md5Hex16(registered) \in DEMO_MALICIOUS_HASHES
        THEN <<"Threat Hash Database">> ELSE <<>>)

ResponseUrls(resp) ==
    [i \in 1..Len(resp.history) |-> resp.history[i].url] \o <<resp.final.url>>

\* the trace ended with a response: the remote answered after at most
\* MAX_REDIRECTS redirects
TraceSucceeded(remote) == remote.exc = "none" /\ Len(remote.history) <= MAX_REDIRECTS

\* the three penalties of a successful trace, as the policy states them
HopPenalty(count) == IF count >= 5 THEN 15 ELSE IF count >= 3 THEN 8 ELSE 0

CrossDomainPenalty(urls) ==
    IF Cardinality({Registered(urls[i]) : i \in 1..Len(urls)}) > 2 THEN 10 ELSE 0

DowngradePenalty(urls) ==
    IF \E i \in 1..(Len(urls) - 1) :
          UrlScheme(urls[i]) = HTTPS /\ UrlScheme(urls[i + 1]) = <<"h", "t", "t", "p">>
    THEN 12 ELSE 0

FailureMode(exc) ==
    IF exc = "requests.TooManyRedirects" THEN "too_many_redirects"
    ELSE IF exc = "requests.SSLError" THEN "tls_error"
    ELSE IF exc \in {"requests.ConnectTimeout", "requests.ReadTimeout"} THEN "timeout"
    ELSE IF exc = "requests.ConnectionError" THEN "connection_error"
    ELSE "other"

FailureScore(mode) ==
    CASE mode = "too_many_redirects" -> 18
      [] mode = "tls_error"          -> 5
      [] mode = "connection_error"   -> 5
      [] mode = "timeout"            -> 3
      [] OTHER                       -> 3

\* the exception that ends the trace, "none" when a response came back
TraceException(remote) ==
    IF TraceSucceeded(remote) THEN "none"
    ELSE IF remote.exc = "none" THEN "requests.TooManyRedirects"
    ELSE remote.exc

\* C22: a trace that fails ends in exactly one failure mode and gets that
\* mode's score and a single rule: too many redirects 18, TLS error 5,
\* connection error 5, timeout 3, any other error 3; no penalty of the
\* success branch is added.
C22_RedirectFailureModes ==
    (StageReturned("analyze_redirects") /\ ~TraceSucceeded(stage_args.remote)) =>
        /\ ~IsRaise(stage_result)
        /\ Len(stage_result.rules_triggered) = 1
        /\ stage_result.rule_score = stage_result.rules_triggered[1].delta
        /\ stage_result.rule_score =
              FailureScore(FailureMode(TraceException(stage_args.remote)))
        /\ ~stage_result.crosses_domains
        /\ ~stage_result.has_suspicious_hops

\* C23: the tracer follows at most MAX_REDIRECTS (10) redirects: whatever the
\* remote does, a chain without end included, the redirect count of the
\* stage's result lies between 0 and 10.
C23_RedirectCountBounded ==
    StageReturned("analyze_redirects") =>
        /\ stage_result.redirect_count \in 0..MAX_REDIRECTS
        /\ Len(stage_result.redirect_chain) <= MAX_REDIRECTS + 1
        /\ (stage_args.remote.exc = "none"
               /\ Len(stage_args.remote.history) > MAX_REDIRECTS) =>
              stage_result.redirect_count = MAX_REDIRECTS

\* a remote that sends more redirects than the session follows: the trace is
\* cut and reported with a count of 10
C23_Witness ==
    /\ StageReturned("analyze_redirects")
    /\ stage_args.remote.exc = "none"
    /\ Len(stage_args.remote.history) > MAX_REDIRECTS
    /\ stage_result.redirect_count = MAX_REDIRECTS
    /\ stage_result.rules_triggered = <<Rule("Redirect loop detected", 18)>>

(***************************************************************************)
(* The lexical stage called on its own (scanner.py 60-201).                *)
(***************************************************************************)
\* the delta of each rule of the lexical policy, from the features the stage
\* reports and, for the two it does not report, from the URL
LengthDelta(len) == IF len > 75 THEN Min(15, ((len - 75) \div 10) * 3) ELSE 0

SubdomainDelta(depth) == IF depth >= 3 THEN 10 ELSE IF depth = 2 THEN 5 ELSE 0

KeywordDelta(matches) == IF matches >= 3 THEN 15 ELSE IF matches >= 1 THEN 8 ELSE 0

When(condition, delta) == IF condition THEN delta ELSE 0

LexicalDeltas(r, u) ==
      LengthDelta(r.url_length)
    + When(r.has_ip_in_url, 25)
    + SubdomainDelta(r.num_subdomains)
    + KeywordDelta(r.suspicious_patterns)
    + When(r.has_suspicious_tld, 12)
    + When(r.num_hyphens >= 4, 8)
    + When(r.special_char_count >= 5, 7)
    + When(r.has_at_symbol, 15)
    + When(r.pct_encoded_count >= 3, 8)
    + When(HasDoubleEncoding(u), 12)
    + When(r.has_punycode, 10)
    + When(r.is_url_shortener, 10)
    + When(CountIn(UrlHostname(u), Digits) >= 4, 5)

ExactWeighted(rule_score, ml_score) ==
    Min(60 * Points(rule_score) + 40 * ml_score, 100 * Points(100))

\* hundredths is exact, given in ten-thousandths, rounded to two decimals
RoundsTo(hundredths, exact) == (100 * hundredths - exact) \in -50..50

\* the floor the two flags put under the score, in hundredths
FloorOf(feature_vector) ==
    IF feature_vector.is_blacklisted # 0 THEN Points(80)
    ELSE IF feature_vector.has_ip_in_url # 0 THEN Points(60)
    ELSE 0

\* C25: before the floors are applied the hybrid score is 0.60 * rule score +
\* 0.40 * anomaly score, capped at 100 and rounded to 2 decimals, for every
\* rule score and anomaly score in 0..100: a call without flags returns that
\* value, and a call with a flag returns it whenever it exceeds the floor.
C25_WeightedSum ==
    HybridReturned =>
        \/ RoundsTo(hybrid_result.risk_score,
                    ExactWeighted(hybrid_args.rule_score, hybrid_args.ml_score))
        \/ /\ hybrid_result.risk_score = FloorOf(hybrid_args.feature_vector)
           /\ ExactWeighted(hybrid_args.rule_score, hybrid_args.ml_score)
                 < 100 * FloorOf(hybrid_args.feature_vector)

\* rule score 37 and anomaly score 49.47 without flags: 22.2 + 19.788, which
\* rounds to 41.99
C25_Witness ==
    /\ HybridReturned
    /\ hybrid_args.rule_score = 37
    /\ hybrid_args.ml_score = 4947
    /\ hybrid_args.feature_vector = OverrideFlags(0, 0)
    /\ hybrid_result.risk_score = 4199

\* ---------------------------------------------------------------------------
\* C26  the normalisation of the raw score
\* ---------------------------------------------------------------------------

\* the raw score brought into the reference range
ClampedRaw(raw_score) ==
    IF raw_score < SCORE_MIN THEN SCORE_MIN
    ELSE IF raw_score > SCORE_MAX THEN SCORE_MAX
    ELSE raw_score

\* score, in hundredths, is the two-decimal rounding of the point of the line
\* through (SCORE_MIN, 100) and (SCORE_MAX, 0) at the clamped raw score
OnRemapLine(score, clamped) ==
    LET width == SCORE_MAX - SCORE_MIN
        exact == (SCORE_MAX - clamped) * Points(100)
        diff  == score * width - exact
    IN  /\ 2 * diff <= width
        /\ -2 * diff <= width

\* C26: for every raw model output the anomaly score is the raw value clamped
\* into [-0.8, 0.2] and linearly remapped, -0.8 or anything lower giving 100
\* and 0.2 or anything higher giving 0; it lies in [0, 100] and a larger raw
\* value never gives a larger score.
C26_Normalization ==
    StageReturned("compute_ml_anomaly_score") =>
        LET raw   == stage_args.raw_score
            score == stage_result.ml_anomaly_score
        IN  /\ OnRemapLine(score, ClampedRaw(raw))
            /\ raw <= SCORE_MIN => score = Points(100)
            /\ raw >= SCORE_MAX => score = 0
            /\ score >= 0
            /\ score <= Points(100)
            /\ \A larger \in StageRawScores :
                   larger >= raw => NormalizeRawScore(larger) <= score

\* a raw score of -0.65001, strictly inside the reference range, gives 85.0
C26_Witness ==
    /\ StageReturned("compute_ml_anomaly_score")
    /\ stage_args.raw_score = FittedOffset - 15001
    /\ stage_args.raw_score > SCORE_MIN
    /\ stage_args.raw_score < SCORE_MAX
    /\ stage_result.ml_anomaly_score = 8500

\* ---------------------------------------------------------------------------
\* C27  the anomaly flag and the confidence label
\* ---------------------------------------------------------------------------

\* the decision margin of a call: the raw score less the fitted offset
MarginOf(args) == args.raw_score - FittedOffset

\* C27: the anomaly flag is true exactly when the decision margin is below 0;
\* the label is High when the margin is below -0.15, Medium when it is at
\* least -0.15 and below 0, and Low otherwise; so the flag is true exactly
\* when the label is High or Medium.
C27_FlagAndLabel ==
    StageReturned("compute_ml_anomaly_score") =>
        LET margin == MarginOf(stage_args)
            label  == stage_result.anomaly_confidence
        IN  /\ stage_result.if_decision = margin
            /\ stage_result.is_anomaly <=> margin < 0
            /\ label = "High" <=> margin < -15000
            /\ label = "Medium" <=> (margin >= -15000 /\ margin < 0)
            /\ label = "Low" <=> margin >= 0
            /\ stage_result.is_anomaly <=> label \in {"High", "Medium"}

\* a margin of exactly -0.15 is flagged and labelled Medium
C27_Witness ==
    /\ StageReturned("compute_ml_anomaly_score")
    /\ MarginOf(stage_args) = -15000
    /\ stage_result.is_anomaly
    /\ stage_result.anomaly_confidence = "Medium"

\* ---------------------------------------------------------------------------
\* C28  a stage's rule list and its score
\* ---------------------------------------------------------------------------

\* the five analyzer stages
AnalyzerStages ==
    {"analyze_url_structure", "analyze_domain", "analyze_ssl", "check_blacklist",
     "analyze_redirects"}

\* a stage has been called and has returned a result
AnalyzerReturned ==
    /\ stage_args # None
    /\ stage_args.fn \in AnalyzerStages
    /\ stage_result # None
    /\ ~IsRaise(stage_result)

\* C28: for each of the five stages the list of triggered rules is empty
\* exactly when the stage's score is 0: every listed rule carries a strictly
\* positive score delta, and a stage with a positive score lists a rule.
C28_RulesIffScore ==
    AnalyzerReturned =>
        /\ stage_result.rules_triggered = <<>> <=> stage_result.rule_score = 0
        /\ \A i \in DOMAIN stage_result.rules_triggered :
               stage_result.rules_triggered[i].delta > 0

\* ---------------------------------------------------------------------------
\* C29  the domain-age stage's failure outcomes
\* ---------------------------------------------------------------------------

\* the stage ended in the lookup-failure or in the lookup-unavailable outcome
DomainFellBack ==
    /\ StageReturned("analyze_domain")
    /\ ~IsRaise(stage_result)
    /\ \/ stage_result.rules_triggered = <<Rule("WHOIS lookup failed", 5)>>
       \/ stage_result.rules_triggered = <<Rule("WHOIS unavailable", 8)>>

\* C29: whenever the domain-age stage ends in the lookup-failure outcome
\* (score 5) or the lookup-unavailable outcome (score 8), the result reports
\* the age as unknown (-1) with no creation date and the newly-registered
\* flag at its default: a lookup failing part-way leaves nothing computed
\* from partial data.
C29_FailureReportsUnknownAge ==
    DomainFellBack =>
        /\ stage_result.rule_score \in {5, 8}
        /\ stage_result.domain_age_days = -1
        /\ stage_result.creation_date = "None"
        /\ stage_result.is_newly_registered = DomainDefault(TRUE).is_newly_registered

\* ---------------------------------------------------------------------------
\* C30  one scan for one click on an example
\* ---------------------------------------------------------------------------

\* C30: a click on a Quick Example sets pending_scan_url and trigger_scan and
\* the scan runs on the next rerun; however that call of run_scan ends
\* (success, invalid-URL error or pipeline exception) trigger_scan is false
\* once the script is idle again, so that no later rerun of the page starts
\* the same scan again.
C30_TriggerClearedAfterScan ==
    pc = "idle" => /\ ~trigger_scan
                   /\ ~ENABLED Rerun
=============================================================================
